---- MODULE Spec2Model ----
(***************************************************************************)
(* Model of the benchmark-jpegxl run orchestration engine:                 *)
(*   - the worker pool of Benchmarker (round-robin cursor, busy flags,     *)
(*     thread handles, join on reuse, barrier),                            *)
(*   - run_benchmark (test sets x revisions x image files, the list of     *)
(*     comparison logs and the decision taken on its length),              *)
(*   - JXLCompressionBenchmark::run (the sweep of one task) and            *)
(*     JXLCompressionBenchmark::compare_results (sort, alignment           *)
(*     assertions, elementwise diff, summary).                             *)
(*                                                                         *)
(* Conventions.  An Option is the string "none" or the value.  Distances   *)
(* are scaled by 10 (0.5 is 5).  A file name is the pair <<stem, ext>>,    *)
(* stems are numbered in their lexicographic order.  Floating point        *)
(* values are exact integers; a quotient is the record [num, den] or NaN.  *)
(***************************************************************************)
EXTENDS Integers, Sequences, FiniteSets, TLC

\* ---- bounds of the model ----
MaxWorkers == 2
MaxTestSets == 2
MaxFiles == 2
MaxRows == 2

\* ---- program constants ----
FirstEffort == 5
DEFAULT_LIBJXL_COMMIT == "main"

None == "none"

\* The grid of the sweep: vec![0.5, 1.0, 1.5, 3.0, 4.0, 6.0, 8.0, 10.0, 12.0,
\* 14.0] (scaled by 10) and the range 5..=9.
distances == <<5, 10, 15, 30, 40, 60, 80, 100, 120, 140>>
efforts == <<FirstEffort, 6, 7, 8, 9>>

VARIABLES
    image_dir,        \* the local test image directory: test set -> listing
    config,           \* the Context as built by Benchmarker::new
    context,          \* Benchmarker.context
    workers,          \* Benchmarker.workers: id -> [working, thread_handle, payload]
    current_worker_id,\* Benchmarker.current_worker_id
    threads,          \* every thread spawned so far: [worker, docker, payload, step, state]
    pc,               \* position of the dispatching (main) thread
    commit,           \* run_benchmark: local `commit`
    comparison_csvs,  \* run_benchmark: local `comparison_csvs`
    test_set,         \* run_benchmark: index of the test set of the for loop
    entry,            \* run_benchmark: index in the directory listing
    wid,              \* the worker returned by wait_for_available_worker
    csv,              \* the CSV logs on disk: key -> [exists, rows]
    out,              \* comparison_diffs.csv and summary.csv on disk, by directory
    dispatched,       \* history: the dispatches, in order
    compare_calls,    \* history: the calls of compare_results, in order
    panic,            \* the panic message of the main thread, or "none"
    grid,             \* the (distance, effort) pairs a task sweeps, in order
    tool_exits,       \* the exit codes the tools run by a task may end with
    benchmark_dir,    \* the benchmark root: [exists, children], names in directory order
    runs,             \* history: the run numbers resolved, with the root as it was
    call,             \* the last call of a function of the file system or tool layer
    log_file,         \* one CSV file written line by line: [exists, lines]
    writers,          \* the threads writing log_file: id -> [pc, row]
    container_ops     \* history: what the dispatcher did on the containers, in order

\* The state of one Benchmarker process and of the result files of its run.
benchmarkerVars ==
    <<image_dir, config, context, workers, current_worker_id, threads, pc,
      commit, comparison_csvs, test_set, entry, wid, csv, out, dispatched,
      compare_calls, panic, grid, tool_exits, container_ops>>

\* The state the orchestration of one run leaves alone.
otherVars == <<tool_exits, call, log_file, writers>>

vars == <<image_dir, config, context, workers, current_worker_id, threads, pc,
          commit, comparison_csvs, test_set, entry, wid, csv, out, dispatched,
          compare_calls, panic, grid, tool_exits, benchmark_dir, runs, call,
          log_file, writers, container_ops>>

\* ---------------------------------------------------------------------
\* Inputs

Revisions == {DEFAULT_LIBJXL_COMMIT, "v1", "v2", "local"}

\* The files a test set directory may hold, in directory order.
FileUniverse == << <<1, "png">>, <<2, "png">>, <<3, "txt">> >>

RECURSIVE SubListings(_)
SubListings(k) ==
    IF k = 0 THEN { <<>> }
    ELSE LET rest == SubListings(k - 1)
         IN  rest \cup { Append(l, FileUniverse[k]) : l \in rest }

\* A listing: at most MaxFiles files of the universe, in directory order.
Listings == { l \in SubListings(Len(FileUniverse)) : Len(l) <= MaxFiles }

\* What one encode followed by the metric tools can measure.
Measurements == { [comp_file_size |-> 0, psnr |-> 3],
                  [comp_file_size |-> 2, psnr |-> -1] }

\* The encoder and the metric tools are deterministic programs: what they
\* measure depends on the revision built and on the effort asked for.
Measure(rev, effort) ==
    IF rev = "local" \/ effort > FirstEffort
    THEN [comp_file_size |-> 0, psnr |-> 3]
    ELSE [comp_file_size |-> 2, psnr |-> -1]

\* ---------------------------------------------------------------------
\* ImageFormat::from_file_name

SupportedExtensions ==
    {"jxl", "png", "jpeg", "gif", "webp", "ppm", "tiff", "tga", "dds", "bmp",
     "ico", "hdr", "exr", "ff", "avif", "qoi"}

\* Path::extension: None for a file name that has no extension.
extension(file) == file[2]

\* path.extension().unwrap() panics on a name without an extension.
from_file_name(file) ==
    IF extension(file) = None THEN "panic"
    ELSE IF extension(file) \in SupportedExtensions THEN extension(file)
    ELSE "Unsupported"

\* The entries run_benchmark dispatches.
IsSupported(file) == from_file_name(file) \notin {"Unsupported", "panic"}

\* ---------------------------------------------------------------------
\* String order of file names (String::cmp): stems are numbered in their
\* lexicographic order, then the extension decides.

ExtRank(ext) ==
    CASE ext = "jpeg" -> 1
      [] ext = "jxl" -> 2
      [] ext = "png" -> 3
      [] OTHER -> 4

NameLess(a, b) ==
    \/ a[1] < b[1]
    \/ a[1] = b[1] /\ ExtRank(a[2]) < ExtRank(b[2])

\* ---------------------------------------------------------------------
\* JXLCompressionBenchmark::compare_results

\* Vec::sort_by(|a, b| a.orig_image_name.cmp(&b.orig_image_name)): a stable
\* sort, computed here by insertion from the left.
RECURSIVE InsertRow(_, _)
InsertRow(s, r) ==
    IF s = <<>> THEN <<r>>
    ELSE IF NameLess(r.orig_image_name, s[Len(s)].orig_image_name)
         THEN Append(InsertRow(SubSeq(s, 1, Len(s) - 1), r), s[Len(s)])
         ELSE Append(s, r)

RECURSIVE sort_by_orig_image_name(_)
sort_by_orig_image_name(s) ==
    IF s = <<>> THEN <<>>
    ELSE InsertRow(sort_by_orig_image_name(SubSeq(s, 1, Len(s) - 1)), s[Len(s)])

\* Mutant: the effort of the rows is not asserted.
RowsAlignedButEffort(a, b) ==
    /\ a.orig_image_name = b.orig_image_name
    /\ a.comp_image_name = b.comp_image_name
    /\ a.distance = b.distance

\* The four assertions on the i-th rows.
RowsAligned(a, b) ==
    /\ a.orig_image_name = b.orig_image_name
    /\ a.comp_image_name = b.comp_image_name
    /\ a.distance = b.distance
    /\ a.effort = b.effort

\* Mutant: diff = result_1 - result_2.
ComparisonResultDiffReversed(a, b) ==
    [orig_image_name |-> a.orig_image_name,
     comp_image_name |-> a.comp_image_name,
     distance |-> a.distance,
     effort |-> a.effort,
     diff_comp_file_size |-> a.comp_file_size - b.comp_file_size,
     diff_psnr |-> a.psnr - b.psnr]

\* diff = result_2 - result_1, identity fields from result_1.
ComparisonResultDiff(a, b) ==
    [orig_image_name |-> a.orig_image_name,
     comp_image_name |-> a.comp_image_name,
     distance |-> a.distance,
     effort |-> a.effort,
     diff_comp_file_size |-> b.comp_file_size - a.comp_file_size,
     diff_psnr |-> b.psnr - a.psnr]

\* The loop over 0..len: the rows pushed before the first failing assertion.
RECURSIVE DiffLoop(_, _, _, _)
DiffLoop(r1, r2, i, results) ==
    IF i > Len(r1) THEN [ok |-> TRUE, results |-> results]
    ELSE IF ~RowsAligned(r1[i], r2[i]) THEN [ok |-> FALSE, results |-> results]
    ELSE DiffLoop(r1, r2, i + 1, Append(results, ComparisonResultDiff(r1[i], r2[i])))

RECURSIVE SumLoop(_, _, _)
SumLoop(results, i, acc) ==
    IF i > Len(results) THEN acc
    ELSE SumLoop(results, i + 1,
                 [diff_comp_file_size |-> acc.diff_comp_file_size + results[i].diff_comp_file_size,
                  diff_psnr |-> acc.diff_psnr + results[i].diff_psnr])

\* Mutant: the sum is not divided by the number of rows.
QuotientNotDivided(sum, n) == [num |-> sum, den |-> 1]

\* f64 division: the exact quotient num/den; den = 0 is NaN (0.0 / 0.0).
Quotient(sum, n) ==
    IF n = 0 THEN [num |-> 0, den |-> 0] ELSE [num |-> sum, den |-> n]

Summary(results) ==
    LET acc == SumLoop(results, 1, [diff_comp_file_size |-> 0, diff_psnr |-> 0])
    IN  [orig_image_name |-> "Summary",
         comp_image_name |-> "Summary",
         distance |-> 0,
         effort |-> 0,
         diff_comp_file_size |-> Quotient(acc.diff_comp_file_size, Len(results)),
         diff_psnr |-> Quotient(acc.diff_psnr, Len(results))]

\* The value computed by compare_results on the two logs read from disk:
\* status "ok" with the diff rows and the summary, or status "panic".
compare_results(log1, log2) ==
    LET r1 == sort_by_orig_image_name(log1)
        r2 == sort_by_orig_image_name(log2)
    IN  IF Len(r1) # Len(r2)
        THEN [status |-> "panic", results |-> <<>>, summary |-> <<>>]
        ELSE LET loop == DiffLoop(r1, r2, 1, <<>>)
             IN  IF ~loop.ok
                 THEN [status |-> "panic", results |-> <<>>, summary |-> <<>>]
                 ELSE [status |-> "ok", results |-> loop.results,
                       summary |-> <<Summary(loop.results)>>]

\* ---------------------------------------------------------------------
\* DockerManager: the outcome of a command.  The Output of a process is
\* [ran, code, stdout, stderr]; ran is FALSE when the process could not be
\* started.  A Result is [outer, inner, text].

\* ExitStatus::success
success(code) == code = 0

\* Mutant: a failing tool is always reported by its stderr.
failure_text_is_stderr(stdout, stderr) == stderr

\* if stderr.len() > 0 { Ok(Err(stderr)) } else { Ok(Err(stdout)) }
failure_text(stdout, stderr) == IF stderr # "" THEN stderr ELSE stdout

\* DockerManager::execute_in_container
execute_in_container(output) ==
    IF ~output.ran
    THEN [outer |-> "Err", inner |-> "", text |-> "io"]
    ELSE IF success(output.code)
    THEN [outer |-> "Ok", inner |-> "Ok", text |-> output.stdout]
    ELSE [outer |-> "Ok", inner |-> "Err",
          text |-> failure_text(output.stdout, output.stderr)]

\* DockerManager::execute_command, for a process that could be started.
execute_command(output) ==
    IF success(output.code)
    THEN [outer |-> "Ok", inner |-> "", text |-> output.stdout]
    ELSE [outer |-> "Err", inner |-> "", text |-> output.stderr]

\* The build script, the tools one (distance, effort) pair runs and the
\* two commands of apply_local_as_diff, and the exit codes they end with:
\* a code for each.
Tools == {"ci.sh", "cjxl", "docker_cp", "butteraugli_main", "ssimulacra2",
          "cp_local_diff", "git_apply"}
ExitCodes == {0, 1}
Exits == [Tools -> ExitCodes]

\* What a tool that ends with the given code has printed.
ToolOutput(code) ==
    [ran |-> TRUE, code |-> code, stdout |-> "out", stderr |-> ""]

\* The exit codes on which a pair is swept to its end, and those of a
\* failing encoder.
SweptExits == [t \in Tools |-> IF t = "butteraugli_main" THEN 1 ELSE 0]
EncoderFailsExits == [t \in Tools |-> IF t = "cjxl" THEN 1 ELSE 0]

\* ---------------------------------------------------------------------
\* Names of directory entries and run numbers.  A name is the sequence of
\* its characters; a directory is [exists, children], the children in the
\* order read_dir yields them.

Digits == <<"0", "1", "2", "3", "4", "5", "6", "7", "8", "9">>

IsDigit(c) == \E d \in 1..Len(Digits) : Digits[d] = c

DigitValue(c) == (CHOOSE d \in 1..Len(Digits) : Digits[d] = c) - 1

\* The Err of str::parse.
ParseErr == -1

RECURSIVE parse_digits(_, _)
parse_digits(s, acc) ==
    IF s = <<>> THEN acc
    ELSE IF ~IsDigit(Head(s)) THEN ParseErr
    ELSE parse_digits(Tail(s), acc * 10 + DigitValue(Head(s)))

\* str::parse::<usize>: an optional "+", then at least one decimal digit.
\* The names of the model are short, so no value overflows a usize.
parse_usize(name) ==
    LET digits == IF name # <<>> /\ Head(name) = "+" THEN Tail(name) ELSE name
    IN  IF digits = <<>> THEN ParseErr ELSE parse_digits(digits, 0)

\* usize::to_string, as format!("{}", current_run) writes it.
RECURSIVE to_string(_)
to_string(n) ==
    IF n < 10 THEN <<Digits[n + 1]>>
    ELSE Append(to_string(n \div 10), Digits[(n % 10) + 1])

\* Mutant: the highest number is kept, not the number after it.
next_run_not_incremented(current_run, run) ==
    IF run >= current_run THEN run ELSE current_run

\* if run >= current_run { current_run = run + 1; }
next_run(current_run, run) ==
    IF run >= current_run THEN run + 1 ELSE current_run

RECURSIVE get_current_run_loop(_, _)
get_current_run_loop(children, current_run) ==
    IF children = <<>> THEN current_run
    ELSE LET run == parse_usize(Head(children))
         IN  IF run = ParseErr
             THEN get_current_run_loop(Tail(children), current_run)
             ELSE get_current_run_loop(Tail(children), next_run(current_run, run))

\* Benchmarker::get_current_run on the benchmark directory.
get_current_run(dir) ==
    IF ~dir.exists THEN 0 ELSE get_current_run_loop(dir.children, 0)

starts_with_dot(name) == name # <<>> /\ Head(name) = "."

\* Mutant: an entry is kept when it is a directory, hidden or not.
is_test_set_or_hidden(child) == child.is_dir

\* The entries get_all_test_set_names does not skip.
is_test_set(child) == ~(starts_with_dot(child.name) \/ ~child.is_dir)

RECURSIVE get_all_test_set_names_loop(_, _)
get_all_test_set_names_loop(children, test_sets) ==
    IF children = <<>> THEN test_sets
    ELSE get_all_test_set_names_loop(
             Tail(children),
             IF is_test_set(Head(children))
             THEN Append(test_sets, Head(children).name) ELSE test_sets)

\* Benchmarker::get_all_test_set_names on the local test image directory,
\* whose children are [name, is_dir].
get_all_test_set_names(dir) ==
    IF ~dir.exists THEN <<>> ELSE get_all_test_set_names_loop(dir.children, <<>>)

\* Mutant: the directory is not created.
not_created(dir, name) == dir

\* exists_or_create_dir of a child of the root.
created(dir, name) ==
    IF \E i \in 1..Len(dir.children) : dir.children[i] = name
    THEN dir
    ELSE [exists |-> TRUE, children |-> Append(dir.children, name)]

\* ---------------------------------------------------------------------
\* State after construction (Benchmarker::new)

NoHandle == 0

\* The CSV logs of a run: results/orig/<test set>/<commit>/results.csv,
\* results/comp/<test set>/<commit>/comparisons.csv and, for the encoded
\* artifacts, results/comp/<test set>/<commit>/results.csv.
CsvKeys == {"orig", "comp", "artifact"} \X (1..MaxTestSets) \X Revisions
OutDirs == (1..MaxTestSets) \X Revisions

\* for distance in distances { for effort in efforts { .. } }
Grid == [k \in 1..(Len(distances) * Len(efforts)) |->
            [distance |-> distances[((k - 1) \div Len(efforts)) + 1],
             effort |-> efforts[((k - 1) % Len(efforts)) + 1]]]

\* The payload every worker is constructed with.
EmptyPayload(x) ==
    [libjxl_commit |-> None,
     current_worker_id |-> x,
     current_res_orig_path |-> <<"", 0, "">>,
     current_res_comp_path |-> <<"", 0, "">>,
     current_image_name |-> 0,
     current_image_file_path |-> <<0, 0, "">>,
     current_image_format |-> "Unsupported",
     current_test_set |-> 0]

CONTAINER_NAME == "benchmark-libjxl-container"

\* Mutant: every manager addresses the container of worker 0.
DockerManagerOfFirstWorker(id) ==
    [id |-> id, container_name |-> <<CONTAINER_NAME, 0>>]

\* DockerManager::new: the container name is CONTAINER_NAME-id.
DockerManager(id) ==
    [id |-> id, container_name |-> <<CONTAINER_NAME, id>>]

BenchmarkWorker(x) ==
    [id |-> x, docker_manager |-> DockerManager(x), thread_handle |-> NoHandle,
     payload |-> EmptyPayload(x), working |-> FALSE]

EmptyDisk == [k \in CsvKeys |-> [exists |-> FALSE, rows |-> <<>>]]
EmptyOut == [d \in OutDirs |-> [comparison_diffs |-> <<>>, summary |-> <<>>]]

\* The benchmark root as main leaves it on a first run: created, empty.
NewRoot == [exists |-> TRUE, children |-> <<>>]

NoCall == [op |-> "none"]
NoFile == [exists |-> FALSE, lines |-> <<>>]

\* The Context built by Benchmarker::new.
Context(w, n, lc, cl, cc, root) ==
    [num_workers |-> w,
     test_sets |-> [i \in 1..n |-> i],
     current_run |-> get_current_run(root),
     libjxl_commit |-> lc,
     compare_to_local |-> cl,
     compare_to_commit |-> cc]

\* A process right after Benchmarker::new, before run_benchmark.
Constructed(c) ==
    /\ config = c
    /\ context = c
    /\ workers = [x \in 0..(c.num_workers - 1) |-> BenchmarkWorker(x)]
    /\ current_worker_id = 0
    /\ threads = <<>>
    /\ pc = "run_benchmark"
    /\ commit = None
    /\ comparison_csvs = <<>>
    /\ test_set = 0
    /\ entry = 0
    /\ wid = 0
    /\ csv = EmptyDisk
    /\ out = EmptyOut
    /\ dispatched = <<>>
    /\ compare_calls = <<>>
    /\ panic = None

\* The variables of the file system and tool layer, at rest.
AtRest ==
    /\ container_ops = <<>>
    /\ runs = <<>>
    /\ call = NoCall
    /\ log_file = NoFile
    /\ writers = <<>>

\* Every configuration of the pool and of the comparison, on a new root;
\* a task sweeps the first pair of the grid.
Init ==
    \E w \in 1..MaxWorkers, n \in 0..MaxTestSets,
       lc \in {None, "v1"}, cl \in BOOLEAN, cc \in {None, "v2"} :
      \E listing \in Listings :
        /\ image_dir = [i \in 1..n |-> listing]
        /\ benchmark_dir = NewRoot
        /\ grid = SubSeq(Grid, 1, 1)
        /\ tool_exits = {SweptExits, EncoderFailsExits}
        /\ Constructed(Context(w, n, lc, cl, cc, NewRoot))
        /\ AtRest

\* ---------------------------------------------------------------------
\* The pool

\* Mutant: the id returned is the cursor after the increment.
get_next_worker_id_incremented(cur, num_workers) ==
    LET next == IF cur + 1 >= num_workers THEN 0 ELSE cur + 1
    IN  [id |-> next, current_worker_id |-> next]

\* get_next_worker_id: the id returned and the cursor left behind.
get_next_worker_id(cur, num_workers) ==
    [id |-> cur,
     current_worker_id |-> IF cur + 1 >= num_workers THEN 0 ELSE cur + 1]

\* Mutant: the handle is dropped without waiting for the thread.
JoinableWithoutWaiting(h) == TRUE

\* JoinHandle::join returns once the thread has run to its end or panicked.
Joinable(h) == threads[h].state # "running"

\* Mutant: the handle is taken and joined, the flag is left set.
JoinedStillWorking(worker) == [worker EXCEPT !.thread_handle = NoHandle]

\* The worker after its thread handle has been taken and joined.
Joined(worker) == [worker EXCEPT !.thread_handle = NoHandle, !.working = FALSE]

Panic(msg) ==
    /\ pc' = "panicked"
    /\ panic' = msg

\* One thing done on the container of a worker: a join of the task that
\* uses it, a command of the DockerManager, or the spawn of a task.  arg is
\* the commit of a checkout or of a spawn, status the exit status of the
\* build script.
Op(docker_manager, op, arg, status) ==
    [container |-> docker_manager.container_name, op |-> op, arg |-> arg,
     status |-> status]

\* build_libjxl runs bash -c "cd /libjxl && SKIP_TEST=1 ./ci.sh opt; exit 0 && cd -":
\* the exit status of bash, whatever that of the script.
build_status(script_status) == 0

\* DockerManager::build_libjxl, for a docker exec that could be run.
build_libjxl(script_status) ==
    execute_command(ToolOutput(build_status(script_status)))

\* DockerManager::apply_diff
apply_diff(apply_code) == execute_command(ToolOutput(apply_code))

\* Mutant: the errors of the copy and of the apply are passed on.
apply_local_as_diff_checked(cp_code, apply_code) ==
    IF execute_command(ToolOutput(cp_code)).outer # "Ok"
    THEN execute_command(ToolOutput(cp_code))
    ELSE apply_diff(apply_code)

\* DockerManager::apply_local_as_diff: let _ = docker cp ..; let _ =
\* self.apply_diff(..); Ok(..).
apply_local_as_diff(cp_code, apply_code) ==
    [outer |-> "Ok", inner |-> "", text |-> "Applied local folder as diff"]

\* Whether local.diff was copied into the container and applied there: 0
\* when both commands succeeded.
diff_status(cp_code, apply_code) ==
    IF execute_command(ToolOutput(cp_code)).outer = "Ok"
       /\ apply_diff(apply_code).outer = "Ok"
    THEN 0 ELSE 1

\* The revision switch of a dispatch; status tells whether the local diff
\* was applied.
switch_op(docker_manager, rev, status) ==
    IF rev = "local"
    THEN Op(docker_manager, "apply_local_as_diff", "", status)
    ELSE Op(docker_manager, "change_libjxl_commit", rev, 0)

\* Mutant: the build is issued before the clean and the revision switch.
prepare_ops_build_first(docker_manager, rev, script_status, status) ==
    << Op(docker_manager, "build_libjxl", "", script_status),
       Op(docker_manager, "clean_libjxl", "", 0),
       switch_op(docker_manager, rev, status) >>

\* run_benchmark between wait_for_available_worker and worker.run:
\* clean_libjxl, the revision switch, build_libjxl.
prepare_ops(docker_manager, rev, script_status, status) ==
    << Op(docker_manager, "clean_libjxl", "", 0),
       switch_op(docker_manager, rev, status),
       Op(docker_manager, "build_libjxl", "", script_status) >>

\* The joins of a sequence of workers, those that hold a handle.
RECURSIVE join_ops(_, _)
join_ops(pool, x) ==
    IF x \notin DOMAIN pool THEN <<>>
    ELSE (IF pool[x].thread_handle # NoHandle
          THEN << Op(pool[x].docker_manager, "join", "", 0) >> ELSE <<>>)
         \o join_ops(pool, x + 1)

\* The commands issued on a container, in order.
OpsOn(container) ==
    SelectSeq(container_ops, LAMBDA o : o.container = container)

\* The source tree the last build of a container was made from: "local"
\* when the local diff was applied, else the commit last checked out in
\* the container, "none" when none was.
TreeOf(docker_manager) ==
    LET switches == SelectSeq(OpsOn(docker_manager.container_name),
                              LAMBDA o : \/ o.op = "change_libjxl_commit"
                                         \/ o.op = "apply_local_as_diff" /\ o.status = 0)
        last == switches[Len(switches)]
    IN  IF switches = <<>> THEN None
        ELSE IF last.op = "apply_local_as_diff" THEN "local"
        ELSE last.arg

\* The encoder of a container exists when the last build of the container
\* succeeded: git clean -fdx has removed the build of the revision before.
Built(docker_manager) ==
    LET builds == SelectSeq(OpsOn(docker_manager.container_name),
                            LAMBDA o : o.op = "build_libjxl")
    IN  builds # <<>> /\ builds[Len(builds)].status = 0

\* ---------------------------------------------------------------------
\* run_benchmark, the dispatching thread

Listing == image_dir[context.test_sets[test_set]]

RunBenchmark ==
    /\ pc = "run_benchmark"
    /\ context' = [context EXCEPT !.current_run = get_current_run(benchmark_dir)]
    /\ runs' = Append(runs, [root |-> benchmark_dir,
                             current_run |-> get_current_run(benchmark_dir)])
    /\ commit' = IF context.libjxl_commit # None THEN context.libjxl_commit
                 ELSE DEFAULT_LIBJXL_COMMIT
    /\ comparison_csvs' = <<>>
    /\ test_set' = 1
    /\ pc' = "for_test_set"
    /\ UNCHANGED <<otherVars, container_ops, grid, benchmark_dir, image_dir, config, workers,
                   current_worker_id, threads, entry, wid, csv, out, dispatched,
                   compare_calls, panic>>

\* for test_set in &test_sets
ForTestSet ==
    /\ pc = "for_test_set"
    /\ pc' = IF test_set > Len(context.test_sets) THEN "returned" ELSE "while_commit"
    /\ UNCHANGED <<otherVars, container_ops, grid, benchmark_dir, runs, image_dir, config, context, workers, current_worker_id, threads,
                   commit, comparison_csvs, test_set, entry, wid, csv, out,
                   dispatched, compare_calls, panic>>

\* while commit.is_some(): the output and result paths of the commit are
\* created under the directory of the run, then the entries are listed.
WhileCommit ==
    /\ pc = "while_commit"
    /\ IF commit # None
       THEN /\ benchmark_dir' = created(benchmark_dir, to_string(context.current_run))
            /\ entry' = 1
            /\ pc' = "for_entry"
       ELSE /\ benchmark_dir' = benchmark_dir
            /\ entry' = entry
            /\ pc' = "wait_for_all_workers"
    /\ UNCHANGED <<otherVars, container_ops, grid, runs, image_dir, config, context, workers, current_worker_id, threads,
                   commit, comparison_csvs, test_set, wid, csv, out, dispatched,
                   compare_calls, panic>>

\* An entry that is no supported image file: continue, unless the call of
\* from_file_name panics.
SkipEntry ==
    /\ pc = "for_entry"
    /\ entry <= Len(Listing)
    /\ ~IsSupported(Listing[entry])
    /\ IF from_file_name(Listing[entry]) = "panic"
       THEN /\ Panic("called Option::unwrap() on a None value")
            /\ entry' = entry
       ELSE /\ entry' = entry + 1
            /\ UNCHANGED <<pc, panic>>
    /\ UNCHANGED <<otherVars, container_ops, grid, benchmark_dir, runs, image_dir, config, context,
                   workers, current_worker_id, threads, commit, comparison_csvs,
                   test_set, wid, csv, out, dispatched, compare_calls>>

\* wait_for_available_worker, called for a supported image file.
wait_for_available_worker ==
    /\ pc = "for_entry"
    /\ entry <= Len(Listing)
    /\ IsSupported(Listing[entry])
    /\ LET next == get_next_worker_id(current_worker_id, context.num_workers)
           worker == workers[next.id]
       IN  /\ current_worker_id' = next.current_worker_id
           /\ wid' = next.id
           /\ IF worker.working
              THEN IF worker.thread_handle # NoHandle
                   THEN /\ Joinable(worker.thread_handle)
                        /\ workers' = [workers EXCEPT ![next.id] = Joined(worker)]
                        /\ container_ops' =
                              Append(container_ops, Op(worker.docker_manager, "join", "", 0))
                        /\ pc' = "clean_libjxl"
                        /\ panic' = panic
                   ELSE /\ workers' = workers
                        /\ container_ops' = container_ops
                        /\ Panic("Working worker thread handle is None")
              ELSE /\ workers' = workers
                   /\ container_ops' = container_ops
                   /\ pc' = "clean_libjxl"
                   /\ panic' = panic
    /\ UNCHANGED <<otherVars, grid, benchmark_dir, runs, image_dir, config, context, threads, commit, comparison_csvs,
                   test_set, entry, csv, out, dispatched, compare_calls>>

\* The three commands issued on the container of the worker before it is
\* handed the task: clean_libjxl().unwrap(); apply_local_as_diff().unwrap()
\* when the commit is "local" and change_libjxl_commit(commit).unwrap()
\* otherwise; build_libjxl().unwrap().
PrepareContainer ==
    /\ pc = "clean_libjxl"
    /\ \E exits \in tool_exits :
          LET applied == apply_local_as_diff(exits["cp_local_diff"], exits["git_apply"])
              ops == prepare_ops(workers[wid].docker_manager, commit, exits["ci.sh"],
                                 diff_status(exits["cp_local_diff"], exits["git_apply"]))
          IN  IF commit = "local" /\ applied.outer # "Ok"
              THEN /\ container_ops' = container_ops \o SubSeq(ops, 1, 2)
                   /\ Panic("called Result::unwrap() on an Err value")
              ELSE /\ container_ops' = container_ops \o ops
                   /\ IF build_libjxl(exits["ci.sh"]).outer = "Ok"
                      THEN pc' = "run" /\ panic' = panic
                      ELSE Panic("called Result::unwrap() on an Err value")
    /\ UNCHANGED <<otherVars, grid, benchmark_dir, runs, image_dir, config, context, workers, current_worker_id, threads,
                   commit, comparison_csvs, test_set, entry, wid, csv, out,
                   dispatched, compare_calls>>

\* A failing git clean or git checkout, or a docker exec of the build that
\* fails: execute_command returns Err and the unwrap panics the dispatching
\* thread.  apply_local_as_diff returns Ok whatever its commands do.
EnvCommandFails ==
    /\ pc = "clean_libjxl"
    /\ \E failed \in 1..3 :
          /\ failed = 2 => commit # "local"
          /\ container_ops' = container_ops \o
                SubSeq(prepare_ops(workers[wid].docker_manager, commit, 0, 0), 1, failed)
    /\ Panic("called Result::unwrap() on an Err value")
    /\ UNCHANGED <<otherVars, grid, benchmark_dir, runs, image_dir, config, context, workers, current_worker_id, threads,
                   commit, comparison_csvs, test_set, entry, wid, csv, out,
                   dispatched, compare_calls>>

\* The payload of the worker as rewritten before worker.run.
NextPayload(worker) ==
    [worker.payload EXCEPT
        !.current_image_file_path = <<test_set>> \o Listing[entry],
        !.current_image_name = Listing[entry][1],
        !.current_res_orig_path = <<"orig", context.test_sets[test_set], commit>>,
        !.current_res_comp_path = <<"comp", context.test_sets[test_set], commit>>,
        !.current_image_format = from_file_name(Listing[entry]),
        !.current_test_set = context.test_sets[test_set],
        !.libjxl_commit = commit]

\* Mutant: run forgets to flag the worker as working.
SpawnedNotWorking(worker, handle) ==
    [worker EXCEPT !.thread_handle = handle]

\* The worker once run has flagged it working and stored the new handle.
Spawned(worker, handle) ==
    [worker EXCEPT !.working = TRUE, !.thread_handle = handle]

\* Mutant: the task is handed the payload with the test set it was
\* constructed with.
payload_clone_before_rewrite(worker) ==
    [worker.payload EXCEPT !.current_test_set = EmptyPayload(worker.id).current_test_set]

\* let payload = self.payload.as_ref().unwrap().clone(): the closure of the
\* task is moved a copy of the payload as the dispatcher has rewritten it.
payload_clone(worker) == worker.payload

\* BenchmarkWorker::run: join a thread still held, then spawn the new one.
run ==
    /\ pc = "run"
    /\ LET worker == [workers[wid] EXCEPT !.payload = NextPayload(workers[wid])]
           idle == IF worker.thread_handle # NoHandle THEN Joined(worker) ELSE worker
       IN  /\ worker.thread_handle # NoHandle => Joinable(worker.thread_handle)
           /\ threads' = Append(threads,
                                [worker |-> wid,
                                 docker |-> idle.docker_manager,
                                 payload |-> payload_clone(idle),
                                 step |-> 0,
                                 nonzero_exit |-> FALSE,
                                 state |-> "running"])
           /\ workers' = [workers EXCEPT ![wid] = Spawned(idle, Len(threads) + 1)]
           /\ container_ops' = container_ops \o
                 (IF worker.thread_handle # NoHandle
                  THEN << Op(worker.docker_manager, "join", "", 0) >> ELSE <<>>)
                 \o << Op(idle.docker_manager, "spawn", idle.payload.libjxl_commit, 0) >>
           /\ dispatched' = Append(dispatched,
                                   [worker |-> wid,
                                    test_set |-> context.test_sets[test_set],
                                    commit |-> commit,
                                    file |-> Listing[entry]])
    /\ entry' = entry + 1
    /\ pc' = "for_entry"
    /\ UNCHANGED <<otherVars, grid, benchmark_dir, runs, image_dir, config, context, current_worker_id, commit,
                   comparison_csvs, test_set, wid, csv, out, compare_calls, panic>>

\* After the last entry: record the comparison log of the commit and pick
\* the commit to compare to.
NextCommit ==
    /\ pc = "for_entry"
    /\ entry > Len(Listing)
    /\ comparison_csvs' =
          Append(comparison_csvs, <<"comp", context.test_sets[test_set], commit>>)
    /\ IF ~context.compare_to_local /\ context.compare_to_commit = None
       THEN /\ pc' = "wait_for_all_workers"
            /\ UNCHANGED <<commit, context>>
       ELSE /\ pc' = "while_commit"
            /\ IF context.compare_to_commit # None
               THEN /\ commit' = context.compare_to_commit
                    /\ context' = [context EXCEPT !.compare_to_commit = None]
               ELSE IF context.compare_to_local
                    THEN /\ commit' = "local"
                         /\ context' = [context EXCEPT !.compare_to_local = FALSE]
                    ELSE /\ commit' = None
                         /\ context' = context
    /\ UNCHANGED <<otherVars, container_ops, grid, benchmark_dir, runs, image_dir, config, workers, current_worker_id, threads, test_set,
                   entry, wid, csv, out, dispatched, compare_calls, panic>>

\* Mutant: the barrier returns without joining.
AllJoinableWithoutWaiting == TRUE

\* The joins of wait_for_all_workers return once every thread held has ended.
AllJoinable ==
    \A x \in DOMAIN workers :
        workers[x].thread_handle # NoHandle => Joinable(workers[x].thread_handle)

\* wait_for_all_workers: join every thread handle held, then the sanity check.
wait_for_all_workers ==
    /\ pc = "wait_for_all_workers"
    /\ AllJoinable
    /\ LET after == [x \in DOMAIN workers |->
                        IF workers[x].thread_handle # NoHandle
                        THEN Joined(workers[x]) ELSE workers[x]]
       IN  /\ workers' = after
           /\ container_ops' = container_ops \o join_ops(workers, 0)
           /\ IF \E x \in DOMAIN after : after[x].working
              THEN Panic("Worker is still working")
              ELSE /\ pc' = "compare"
                   /\ panic' = panic
    /\ UNCHANGED <<otherVars, grid, benchmark_dir, runs, image_dir, config, context, current_worker_id, threads, commit,
                   comparison_csvs, test_set, entry, wid, csv, out, dispatched,
                   compare_calls>>

\* Mutant: two or more logs are compared.
CompareOutcomeAtLeastTwo(n) ==
    IF n >= 2 THEN "compare_results"
    ELSE IF n = 1 THEN "continue"
    ELSE "No comparison CSVs found"

\* What run_benchmark does with the comparison logs recorded so far.
CompareOutcome(n) ==
    IF n = 2 THEN "compare_results"
    ELSE IF n = 1 THEN "continue"
    ELSE IF n > 2 THEN "More than 2 comparison CSVs found"
    ELSE "No comparison CSVs found"

\* The end of the body of the test set loop.
Compare ==
    /\ pc = "compare"
    /\ LET outcome == CompareOutcome(Len(comparison_csvs))
       IN  IF outcome = "continue"
           THEN /\ test_set' = test_set + 1
                /\ pc' = "for_test_set"
                /\ UNCHANGED <<out, compare_calls, panic>>
           ELSE IF outcome # "compare_results"
           THEN /\ Panic(outcome)
                /\ UNCHANGED <<test_set, out, compare_calls>>
           ELSE LET results_1 == comparison_csvs[1]
                    results_2 == comparison_csvs[2]
                    dir == <<results_1[2], results_1[3]>>
                    res == compare_results(csv[results_1].rows, csv[results_2].rows)
                IN  /\ compare_calls' = Append(compare_calls, <<results_1, results_2>>)
                    /\ IF ~csv[results_1].exists \/ ~csv[results_2].exists
                       THEN /\ Panic("called Result::unwrap() on an Err value")
                            /\ UNCHANGED <<test_set, out>>
                       ELSE IF res.status = "panic"
                       THEN /\ Panic("assertion failed")
                            /\ UNCHANGED <<test_set, out>>
                       ELSE /\ out' = [out EXCEPT
                                  ![dir].comparison_diffs = @ \o res.results,
                                  ![dir].summary = @ \o res.summary]
                            /\ test_set' = test_set + 1
                            /\ pc' = "for_test_set"
                            /\ panic' = panic
    /\ UNCHANGED <<otherVars, container_ops, grid, benchmark_dir, runs, image_dir, config, context, workers, current_worker_id, threads,
                   commit, comparison_csvs, entry, wid, csv, dispatched>>

\* ---------------------------------------------------------------------
\* JXLCompressionBenchmark::run, the background thread of one dispatch.
\* A panic of the main thread ends the process and every thread with it.

\* write_csv_header followed by write_csv of one row.
AppendRow(disk, key, row) ==
    [disk EXCEPT ![key] = [exists |-> TRUE, rows |-> Append(@.rows, row)]]

\* Mutant: a task that takes a step clears the busy flag of its worker.
pool_after_task_step_cleared(pool, task) ==
    [pool EXCEPT ![task.worker].working = FALSE]

\* The pool after a step of a task: the closure spawned by
\* BenchmarkWorker::run owns a clone of the manager and of the payload and
\* nothing of the Benchmarker.
pool_after_task_step(pool, task) == pool

\* The source image is read and its record is appended to results.csv.
WriteOrigResults(t) ==
    /\ panic = None
    /\ threads[t].state = "running"
    /\ threads[t].step = 0
    /\ LET payload == threads[t].payload
       IN  csv' = AppendRow(csv, payload.current_res_orig_path,
                            [image_name |-> <<payload.current_image_file_path[2],
                                              payload.current_image_file_path[3]>>])
    /\ threads' = [threads EXCEPT ![t].step = 1]
    /\ workers' = pool_after_task_step(workers, threads[t])
    /\ UNCHANGED <<otherVars, container_ops, grid, benchmark_dir, runs, image_dir, config, context, current_worker_id, pc,
                   commit, comparison_csvs, test_set, entry, wid, out, dispatched,
                   compare_calls, panic>>

\* find_entry on column 0 of results.csv: the first row with that name.
find_entry(rows, value) ==
    IF \E i \in 1..Len(rows) : rows[i].image_name = value
    THEN rows[CHOOSE i \in 1..Len(rows) :
                 /\ rows[i].image_name = value
                 /\ \A j \in 1..(i - 1) : rows[j].image_name # value]
    ELSE [image_name |-> <<0, "NotFound">>]

\* compare_to_orig: the baseline is looked up in column 0 as
\* format!("{}.png", jxl_orig_image_name).
compare_to_orig_find_entry(rows, comp_image_name) ==
    find_entry(rows, <<comp_image_name[1], "png">>)

\* One (distance, effort) pair, for the exit codes its tools end with:
\*   execute_cjxl(..).unwrap().unwrap()       panics on a failing encoder,
\*   retrieve_file(..).unwrap()               panics on a failing docker cp,
\*   the record of the artifact is appended to results.csv,
\*   compare_to_orig: find_entry(..).unwrap() panics without a baseline row,
\*   calculate_butteraugli: result.unwrap().unwrap_err()
\*                                            panics on a succeeding tool,
\*   calculate_ssimulacra2: result.unwrap().unwrap()
\*                                            panics on a failing tool,
\*   the row is appended to comparisons.csv.
SweepPair(t) ==
    /\ panic = None
    /\ threads[t].state = "running"
    /\ threads[t].step >= 1
    /\ \E exits \in tool_exits :
        LET payload == threads[t].payload
            pair == grid[threads[t].step]
            comp_image_name == <<payload.current_image_name, pair.distance, pair.effort>>
            res_comp_results == <<"artifact", payload.current_res_comp_path[2],
                                  payload.current_res_comp_path[3]>>
            recorded == AppendRow(csv, res_comp_results, [image_name |-> comp_image_name])
            orig_entry == compare_to_orig_find_entry(
                              csv[payload.current_res_orig_path].rows, comp_image_name)
            cjxl == execute_in_container(ToolOutput(
                        IF Built(threads[t].docker) THEN exits["cjxl"] ELSE 127))
            docker_cp == execute_command(ToolOutput(exits["docker_cp"]))
            butteraugli == execute_in_container(ToolOutput(exits["butteraugli_main"]))
            ssimulacra2 == execute_in_container(ToolOutput(exits["ssimulacra2"]))
            m == Measure(TreeOf(threads[t].docker), pair.effort)
            Panicked(nonzero) ==
                threads' = [threads EXCEPT ![t].state = "panicked",
                                           ![t].nonzero_exit = @ \/ nonzero]
        IN  IF cjxl.inner # "Ok"
            THEN Panicked(TRUE) /\ csv' = csv
            ELSE IF docker_cp.outer # "Ok"
            THEN Panicked(TRUE) /\ csv' = csv
            ELSE IF orig_entry.image_name[2] = "NotFound"
            THEN Panicked(FALSE) /\ csv' = recorded
            ELSE IF butteraugli.inner # "Err"
            THEN Panicked(FALSE) /\ csv' = recorded
            ELSE IF ssimulacra2.inner # "Ok"
            THEN Panicked(TRUE) /\ csv' = recorded
            ELSE /\ csv' = AppendRow(recorded, payload.current_res_comp_path,
                                [orig_image_name |-> orig_entry.image_name,
                                 comp_image_name |-> comp_image_name,
                                 distance |-> comp_image_name[2],
                                 effort |-> comp_image_name[3],
                                 comp_file_size |-> m.comp_file_size,
                                 psnr |-> m.psnr])
                 /\ threads' = [threads EXCEPT
                                   ![t].step = @ + 1,
                                   ![t].nonzero_exit = TRUE,
                                   ![t].state = IF threads[t].step = Len(grid)
                                                THEN "finished" ELSE "running"]
    /\ workers' = pool_after_task_step(workers, threads[t])
    /\ UNCHANGED <<otherVars, container_ops, grid, benchmark_dir, runs, image_dir, config, context,
                   current_worker_id, pc, commit, comparison_csvs, test_set,
                   entry, wid, out, dispatched, compare_calls, panic>>

\* ---------------------------------------------------------------------

Next ==
    \/ RunBenchmark
    \/ ForTestSet
    \/ WhileCommit
    \/ SkipEntry
    \/ wait_for_available_worker
    \/ PrepareContainer
    \/ EnvCommandFails
    \/ run
    \/ NextCommit
    \/ wait_for_all_workers
    \/ Compare
    \/ \E t \in 1..Len(threads) : WriteOrigResults(t)
    \/ \E t \in 1..Len(threads) : SweepPair(t)

Spec == Init /\ [][Next]_vars

\* ---------------------------------------------------------------------
\* Properties of the pool and of run_benchmark

Running == { t \in 1..Len(threads) : threads[t].state = "running" }

Idle(x) == ~workers[x].working /\ workers[x].thread_handle = NoHandle

\* C1: at every moment at most one background task is in flight per worker,
\* hence at most num_workers in all: a thread that is still running is the
\* one whose handle its worker holds, so a worker that was handed a new
\* task has had the thread of its previous task joined.
C1_OneTaskInFlightPerWorker ==
    /\ \A t \in Running : workers[threads[t].worker].thread_handle = t
    /\ \A t, u \in Running : threads[t].worker = threads[u].worker => t = u
    /\ Cardinality(Running) <= context.num_workers

\* Witness of C1: every worker of a pool of two runs a task, and one of
\* them is running its second task.
C1_Witness ==
    /\ context.num_workers = 2
    /\ Cardinality(Running) = 2
    /\ \E t \in Running : \E u \in 1..(t - 1) : threads[u].worker = threads[t].worker

\* C2: the i-th dispatch of the run, counted from 0 across revisions and
\* test sets, targets worker i mod W.
C2_RoundRobin ==
    \A i \in 1..Len(dispatched) :
        dispatched[i].worker = (i - 1) % context.num_workers

\* Witness of C2: the cursor has wrapped around a pool of two workers and
\* the dispatches span two revisions.
C2_Witness ==
    /\ context.num_workers = 2
    /\ Len(dispatched) >= 3
    /\ dispatched[1].commit # dispatched[3].commit

\* C3: clean, checkout or diff, and build are never issued on the container
\* of a worker while a background task of that worker is still running.
C3_NoMutationUnderRunningTask ==
    pc = "clean_libjxl" =>
        \A t \in Running : threads[t].docker # workers[wid].docker_manager

\* Witness of C3: the container of a worker that has already run a task is
\* about to be cleaned for its next task.
C3_Witness ==
    /\ pc = "clean_libjxl"
    /\ \E t \in 1..Len(threads) : threads[t].worker = wid

C5_CompareAfterBarrier ==
    [][compare_calls' # compare_calls =>
          /\ Running = {}
          /\ \A x \in DOMAIN workers : Idle(x)
          /\ csv' = csv]_vars

\* Witness of C5: compare_results has been called on two logs that both
\* hold rows appended by background tasks.
C5_Witness ==
    /\ Len(compare_calls) = 1
    /\ csv[compare_calls[1][1]].rows # <<>>
    /\ csv[compare_calls[1][2]].rows # <<>>
    /\ Len(threads) >= 2

\* The revisions the configuration asks for: the base revision and the
\* revision to compare to.
CandidateRevisions ==
    {IF config.libjxl_commit # None THEN config.libjxl_commit ELSE DEFAULT_LIBJXL_COMMIT}
    \cup (IF config.compare_to_commit # None THEN {config.compare_to_commit} ELSE {})
    \cup (IF config.compare_to_local THEN {"local"} ELSE {})

SupportedFiles(ts) ==
    { i \in 1..Len(image_dir[ts]) : IsSupported(image_dir[ts][i]) }

DispatchesOf(ts, rev, file) ==
    { i \in 1..Len(dispatched) :
        /\ dispatched[i].test_set = ts
        /\ dispatched[i].commit = rev
        /\ dispatched[i].file = file }

\* C6: a run_benchmark that has ended, by returning or by its own abort on
\* the number of comparison logs, for a configuration with at most one
\* revision to compare to, has dispatched for every test set and every
\* candidate revision exactly one task per supported image file.
C6_OneTaskPerImageRevisionTestSet ==
    /\ pc = "returned" \/ panic = "More than 2 comparison CSVs found"
    /\ ~(config.compare_to_local /\ config.compare_to_commit # None)
    => \A ts \in DOMAIN image_dir : \A rev \in CandidateRevisions :
          \A i \in SupportedFiles(ts) :
              Cardinality(DispatchesOf(ts, rev, image_dir[ts][i])) = 1

\* C7: the number of comparison logs decides the outcome after the sweep of
\* a test set: one log continues without a comparison, an error or a diff;
\* two logs are compared, once; three or more logs, or none, abort.
C7_LogCountDecides ==
    [][pc = "compare" /\ pc' # "compare" =>
          LET n == Len(comparison_csvs)
          IN  /\ n = 1 => /\ pc' = "for_test_set"
                          /\ panic' = None
                          /\ out' = out
                          /\ compare_calls' = compare_calls
              /\ n = 2 => compare_calls' =
                             Append(compare_calls, <<comparison_csvs[1], comparison_csvs[2]>>)
              /\ (n = 0 \/ n >= 3) => /\ pc' = "panicked"
                                      /\ panic' # None
                                      /\ out' = out
                                      /\ compare_calls' = compare_calls]_vars

\* Witness of C7: a run that compared two logs after one test set and
\* aborted on three logs after the next.
C7_Witness ==
    /\ panic = "More than 2 comparison CSVs found"
    /\ Len(compare_calls) = 1

\* ---------------------------------------------------------------------
\* compare_results on its own: two arbitrary logs are on disk and
\* run_benchmark is about to compare them.

LogRevisions == <<DEFAULT_LIBJXL_COMMIT, "local">>

\* The identity tuples of the rows of the logs: three rows of image 1 (two
\* that differ in the effort only, one at another distance) and one row of
\* image 2.
RowIdentities ==
    { [orig_image_name |-> <<1, "png">>, comp_image_name |-> <<1, 5, 5>>,
       distance |-> 5, effort |-> 5],
      [orig_image_name |-> <<1, "png">>, comp_image_name |-> <<1, 5, 5>>,
       distance |-> 5, effort |-> 6],
      [orig_image_name |-> <<1, "png">>, comp_image_name |-> <<1, 10, 5>>,
       distance |-> 10, effort |-> 5],
      [orig_image_name |-> <<2, "png">>, comp_image_name |-> <<2, 5, 5>>,
       distance |-> 5, effort |-> 5] }

LogRows ==
    { [orig_image_name |-> id.orig_image_name,
       comp_image_name |-> id.comp_image_name,
       distance |-> id.distance,
       effort |-> id.effort,
       comp_file_size |-> m.comp_file_size,
       psnr |-> m.psnr] : id \in RowIdentities, m \in Measurements }

RECURSIVE LogsOfLength(_)
LogsOfLength(n) ==
    IF n = 0 THEN { <<>> }
    ELSE { Append(l, r) : l \in LogsOfLength(n - 1), r \in LogRows }

Logs == UNION { LogsOfLength(n) : n \in 0..MaxRows }

InitCompare ==
    \E log1 \in Logs, log2 \in Logs :
        /\ image_dir = <<FileUniverse>>
        /\ config = Context(1, 1, None, TRUE, None, NewRoot)
        /\ context = [config EXCEPT !.compare_to_local = FALSE]
        /\ benchmark_dir = created(NewRoot, to_string(0))
        /\ grid = Grid
        /\ tool_exits = {SweptExits}
        /\ AtRest
        /\ workers = [x \in {0} |-> BenchmarkWorker(x)]
        /\ current_worker_id = 0
        /\ threads = <<>>
        /\ pc = "compare"
        /\ commit = LogRevisions[2]
        /\ comparison_csvs = [i \in 1..2 |-> <<"comp", 1, LogRevisions[i]>>]
        /\ test_set = 1
        /\ entry = 1
        /\ wid = 0
        /\ csv = [k \in CsvKeys |->
                    IF k = <<"comp", 1, LogRevisions[1]>> THEN [exists |-> TRUE, rows |-> log1]
                    ELSE IF k = <<"comp", 1, LogRevisions[2]>> THEN [exists |-> TRUE, rows |-> log2]
                    ELSE [exists |-> FALSE, rows |-> <<>>]]
        /\ out = EmptyOut
        /\ dispatched = <<>>
        /\ compare_calls = <<>>
        /\ panic = None

SpecCompare == InitCompare /\ [][Compare]_vars

\* The two logs given to compare_results and the files it writes.
Log1 == csv[comparison_csvs[1]].rows
Log2 == csv[comparison_csvs[2]].rows
Written == out[<<comparison_csvs[1][2], comparison_csvs[1][3]>>]

\* The rows of a log in the order of a stable sort by original image name:
\* the rows of the least name in log order, then those of the other names.
LeastName(s) ==
    CHOOSE n \in { s[i].orig_image_name : i \in 1..Len(s) } :
        \A i \in 1..Len(s) : ~NameLess(s[i].orig_image_name, n)

RECURSIVE ByName(_)
ByName(s) ==
    IF s = <<>> THEN <<>>
    ELSE LET n == LeastName(s)
         IN  SelectSeq(s, LAMBDA r : r.orig_image_name = n)
             \o ByName(SelectSeq(s, LAMBDA r : r.orig_image_name # n))

Identity(r) == <<r.orig_image_name, r.comp_image_name, r.distance, r.effort>>

\* Two logs of equal length whose i-th rows by name share their identity.
Aligned(a, b) ==
    /\ Len(a) = Len(b)
    /\ \A i \in 1..Len(a) : Identity(ByName(a)[i]) = Identity(ByName(b)[i])

\* C8: compare_results writes a diff only when the two logs have the same
\* length and their i-th rows, each log sorted by original image name with
\* a stable sort, agree on (orig name, comp name, distance, effort); it
\* then writes one diff row per row; on any mismatch it aborts and neither
\* comparison_diffs.csv nor summary.csv is written.
C8_DiffOnlyOfAlignedLogs ==
    pc # "compare" =>
        IF Aligned(Log1, Log2)
        THEN /\ pc = "for_test_set"
             /\ panic = None
             /\ Len(Written.comparison_diffs) = Len(Log1)
             /\ Len(Written.summary) = 1
        ELSE /\ pc = "panicked"
             /\ panic = "assertion failed"
             /\ out = EmptyOut

\* Witness of C8: two logs that list their rows in different orders and
\* are aligned by the sort have been compared.
C8_Witness ==
    /\ pc = "for_test_set"
    /\ Len(Log1) = 2
    /\ Identity(Log1[1]) = Identity(Log2[2])
    /\ Identity(Log1[2]) = Identity(Log2[1])
    /\ Log1[1].orig_image_name # Log1[2].orig_image_name
    /\ Len(Written.comparison_diffs) = 2

\* C9: for two aligned logs, the diff row i holds in each numeric field the
\* value of the second log minus the value of the first (a size difference
\* may be negative) and carries the identity fields of the row of the first
\* log; there are as many diff rows as rows in each log.
C9_ElementwiseDiff ==
    pc = "for_test_set" =>
        /\ Len(Written.comparison_diffs) = Len(Log1)
        /\ Len(Written.comparison_diffs) = Len(Log2)
        /\ \A i \in 1..Len(Written.comparison_diffs) :
              LET d == Written.comparison_diffs[i]
                  a == ByName(Log1)[i]
                  b == ByName(Log2)[i]
              IN  /\ d.diff_comp_file_size = b.comp_file_size - a.comp_file_size
                  /\ d.diff_psnr = b.psnr - a.psnr
                  /\ <<d.orig_image_name, d.comp_image_name, d.distance, d.effort>>
                        = Identity(a)

\* Witness of C9: a diff with a negative size difference and a positive
\* metric difference has been written.
C9_Witness ==
    /\ pc = "for_test_set"
    /\ \E i \in 1..Len(Written.comparison_diffs) :
          /\ Written.comparison_diffs[i].diff_comp_file_size < 0
          /\ Written.comparison_diffs[i].diff_psnr > 0

\* The sum of one field over the rows of a file.
RECURSIVE Total(_, _)
Total(s, field) ==
    IF s = <<>> THEN 0 ELSE Head(s)[field] + Total(Tail(s), field)

\* A quotient that equals sum / n; NaN for n = 0.
IsMean(q, sum, n) ==
    IF n = 0 THEN q.den = 0
    ELSE q.den # 0 /\ q.num * n = sum * q.den

\* C10: the summary record has both name fields equal to "Summary" and each
\* numeric field equal to the sum of that field over the diff rows divided
\* by the number of diff rows.
C10_SummaryIsMean ==
    pc = "for_test_set" =>
        /\ Len(Written.summary) = 1
        /\ LET s == Written.summary[1]
               diffs == Written.comparison_diffs
           IN  /\ s.orig_image_name = "Summary"
               /\ s.comp_image_name = "Summary"
               /\ IsMean(s.diff_comp_file_size,
                         Total(diffs, "diff_comp_file_size"), Len(diffs))
               /\ IsMean(s.diff_psnr, Total(diffs, "diff_psnr"), Len(diffs))

\* Witness of C10: the summary of two diff rows that differ.
C10_Witness ==
    /\ pc = "for_test_set"
    /\ Len(Written.comparison_diffs) = 2
    /\ Written.comparison_diffs[1].diff_psnr # Written.comparison_diffs[2].diff_psnr
    /\ Written.summary[1].diff_psnr.num # 0

\* ---------------------------------------------------------------------
\* The functions of the file system and tool layer, applied to every input
\* of a bounded set.

MaxChildren == 2

Range(f) == { f[i] : i \in DOMAIN f }

\* The sequences of at most k distinct elements of S.
RECURSIVE DistinctSeqs(_, _)
DistinctSeqs(S, k) ==
    IF k = 0 THEN { <<>> }
    ELSE LET shorter == DistinctSeqs(S, k - 1)
         IN  shorter \cup
             UNION { { Append(l, x) : x \in S \ Range(l) } :
                     l \in { m \in shorter : Len(m) = k - 1 } }

\* Names a child of the benchmark root may have.
RunDirNames ==
    { <<"0">>, <<"1">>, <<"0", "7">>, <<"1", "0">>, <<"+", "2">>, <<"-", "1">>,
      <<"t", "e", "m", "p">>, <<"1", "a">>, <<"+">> }

RootDirs ==
    { [exists |-> FALSE, children |-> <<>>] }
    \cup { [exists |-> TRUE, children |-> l] : l \in DistinctSeqs(RunDirNames, MaxChildren) }

\* Children the local test image directory may have.
ImageRootEntries ==
    { [name |-> <<"k", "o", "d", "i", "m">>, is_dir |-> TRUE],
      [name |-> <<".", "g", "i", "t">>, is_dir |-> TRUE],
      [name |-> <<"r", "e", "a", "d", "m", "e", ".", "t", "x", "t">>, is_dir |-> FALSE],
      [name |-> <<".", "e", "n", "v">>, is_dir |-> FALSE],
      [name |-> <<"s", "e", "t", ".", "2">>, is_dir |-> TRUE] }

ImageRootDirs ==
    { [exists |-> FALSE, children |-> <<>>] }
    \cup { [exists |-> TRUE, children |-> l] :
             l \in DistinctSeqs(ImageRootEntries, MaxChildren) }

InitCalls ==
    /\ image_dir = <<>>
    /\ benchmark_dir = NewRoot
    /\ grid = Grid
    /\ tool_exits = {SweptExits}
    /\ Constructed(Context(1, 0, None, FALSE, None, NewRoot))
    /\ AtRest

GetCurrentRun ==
    /\ \E dir \in RootDirs :
          call' = [op |-> "get_current_run", arg |-> dir,
                   result |-> get_current_run(dir)]
    /\ UNCHANGED <<benchmarkerVars, benchmark_dir, runs, log_file, writers>>

GetAllTestSetNames ==
    /\ \E dir \in ImageRootDirs :
          call' = [op |-> "get_all_test_set_names", arg |-> dir,
                   result |-> get_all_test_set_names(dir)]
    /\ UNCHANGED <<benchmarkerVars, benchmark_dir, runs, log_file, writers>>

\* What docker exec can come back with: whether the process could be run,
\* its exit code, and what it printed.
Outputs ==
    [ran : BOOLEAN, code : {0, 1, 137}, stdout : {"", "out"}, stderr : {"", "warn"}]

ExecuteInContainer ==
    /\ \E output \in Outputs :
          call' = [op |-> "execute_in_container", arg |-> output,
                   result |-> execute_in_container(output)]
    /\ UNCHANGED <<benchmarkerVars, benchmark_dir, runs, log_file, writers>>

MaxSize == 3

\* Mutant: the quotient is taken without looking at the denominator.
file_size_ratio_unchecked(orig, comp, denom) ==
    IF denom = "orig" THEN [status |-> "ok", num |-> comp, den |-> orig]
    ELSE IF denom = "comp" THEN [status |-> "ok", num |-> orig, den |-> comp]
    ELSE [status |-> "panic"]

\* metrics::file_size_ratio; the f64 returned is the exact quotient num/den.
file_size_ratio(orig, comp, denom) ==
    IF (orig = 0 /\ denom = "orig") \/ (comp = 0 /\ denom = "comp")
    THEN [status |-> "ok", num |-> 0, den |-> 1]
    ELSE IF denom = "orig" THEN [status |-> "ok", num |-> comp, den |-> orig]
    ELSE IF denom = "comp" THEN [status |-> "ok", num |-> orig, den |-> comp]
    ELSE [status |-> "panic"]

FileSizeRatio ==
    /\ \E orig \in 0..MaxSize, comp \in 0..MaxSize, denom \in {"orig", "comp", "raw"} :
          call' = [op |-> "file_size_ratio",
                   arg |-> [orig |-> orig, comp |-> comp, denom |-> denom],
                   result |-> file_size_ratio(orig, comp, denom)]
    /\ UNCHANGED <<benchmarkerVars, benchmark_dir, runs, log_file, writers>>

NextCalls ==
    \/ GetCurrentRun
    \/ GetAllTestSetNames
    \/ ExecuteInContainer
    \/ FileSizeRatio

SpecCalls == InitCalls /\ [][NextCalls]_vars

\* A name that reads as a non-negative integer: decimal digits, which a
\* plus sign may precede.
Numeral(name) == IF name # <<>> /\ name[1] = "+" THEN Tail(name) ELSE name

IsNumeric(name) ==
    /\ Numeral(name) # <<>>
    /\ \A i \in 1..Len(Numeral(name)) : IsDigit(Numeral(name)[i])

RECURSIVE Pow10(_)
Pow10(k) == IF k = 0 THEN 1 ELSE 10 * Pow10(k - 1)

RECURSIVE SumOver(_, _)
SumOver(f, S) ==
    IF S = {} THEN 0
    ELSE LET x == CHOOSE y \in S : TRUE IN f[x] + SumOver(f, S \ {x})

\* The value of a numeric name, digit by digit.
NumericValue(name) ==
    LET d == Numeral(name)
    IN  SumOver([i \in 1..Len(d) |-> DigitValue(d[i]) * Pow10(Len(d) - i)], 1..Len(d))

NumericChildren(dir) == { NumericValue(n) : n \in { m \in Range(dir.children) : IsNumeric(m) } }

Maximum(S) == CHOOSE x \in S : \A y \in S : y <= x

\* C11: get_current_run returns 0 for a root that does not exist or has no
\* child with a numeric name, and otherwise 1 + the greatest numeric child
\* name; children with other names are skipped.
C11_CurrentRunIsNextNumber ==
    call.op = "get_current_run" =>
        call.result = IF ~call.arg.exists \/ NumericChildren(call.arg) = {}
                      THEN 0
                      ELSE 1 + Maximum(NumericChildren(call.arg))

\* Witness of C11: a root holding temp and a numbered directory that is
\* listed first gives the number after it.
C11_Witness ==
    /\ call.op = "get_current_run"
    /\ call.arg.children = << <<"1", "0">>, <<"t", "e", "m", "p">> >>
    /\ call.result = 11

\* C13: get_all_test_set_names returns exactly the names of the children
\* that are directories and do not start with ".", in directory order, and
\* nothing for a directory that does not exist.
C13_TestSetsAreVisibleDirectories ==
    call.op = "get_all_test_set_names" =>
        LET dir == call.arg
            kept == { i \in 1..Len(dir.children) :
                        /\ dir.children[i].is_dir
                        /\ dir.children[i].name[1] # "." }
        IN  /\ ~dir.exists => call.result = <<>>
            /\ Len(call.result) = Cardinality(kept)
            /\ \A i \in kept :
                  call.result[Cardinality({ j \in kept : j <= i })] = dir.children[i].name

\* Witness of C13: of kodim/ and .git/ only kodim is returned.
C13_Witness ==
    /\ call.op = "get_all_test_set_names"
    /\ Len(call.arg.children) = 2
    /\ \E i \in 1..2 : call.arg.children[i].name = <<".", "g", "i", "t">>
    /\ call.result = << <<"k", "o", "d", "i", "m">> >>

\* ---------------------------------------------------------------------
\* Runs that follow one another on the same benchmark root.

MaxRuns == 2

\* main, started again once the process of the previous run has ended: a
\* new Benchmarker is built from the same configuration.  The result files
\* of the previous run are those of the new run when the run number is the
\* same.
main ==
    /\ pc \in {"returned", "panicked"}
    /\ Len(runs) < MaxRuns
    /\ LET c == [config EXCEPT !.current_run = get_current_run(benchmark_dir)]
       IN  /\ config' = c
           /\ context' = c
           /\ workers' = [x \in 0..(c.num_workers - 1) |-> BenchmarkWorker(x)]
           /\ csv' = IF c.current_run = context.current_run THEN csv ELSE EmptyDisk
           /\ out' = IF c.current_run = context.current_run THEN out ELSE EmptyOut
    /\ current_worker_id' = 0
    /\ threads' = <<>>
    /\ pc' = "run_benchmark"
    /\ commit' = None
    /\ comparison_csvs' = <<>>
    /\ test_set' = 0
    /\ entry' = 0
    /\ wid' = 0
    /\ dispatched' = <<>>
    /\ compare_calls' = <<>>
    /\ panic' = None
    /\ container_ops' = <<>>
    /\ UNCHANGED <<otherVars, grid, benchmark_dir, runs, image_dir>>

\* One worker, no comparison, at most one test set of at most one file, on
\* a root that already holds up to MaxChildren children.
InitRuns ==
    \E n \in 0..1, children \in DistinctSeqs(RunDirNames, MaxChildren) :
      \E listing \in { l \in Listings : Len(l) <= 1 } :
        /\ image_dir = [i \in 1..n |-> listing]
        /\ benchmark_dir = [exists |-> TRUE, children |-> children]
        /\ grid = SubSeq(Grid, 1, 1)
        /\ tool_exits = {SweptExits, EncoderFailsExits}
        /\ Constructed(Context(1, n, None, FALSE, None, benchmark_dir))
        /\ AtRest

NextRuns ==
    \/ Next
    \/ main

SpecRuns == InitRuns /\ [][NextRuns]_vars

\* C12 as claimed: the run number of a run is greater than every numeric
\* child of the root as it was when the number was resolved, and no two
\* runs on the same root are given the same number.
C12_RunNumbersUnique ==
    /\ \A i \in 1..Len(runs) :
          \A v \in NumericChildren(runs[i].root) : runs[i].current_run > v
    /\ \A i, j \in 1..Len(runs) :
          i # j => runs[i].current_run # runs[j].current_run

\* C12 as amended: the run number is greater than every numeric child of
\* the root, and runs that follow one another are given different numbers
\* when the image root holds a test set: the directory of a run is created
\* when its first test set is entered.
C12_RunNumbersUniqueWithTestSets ==
    /\ \A i \in 1..Len(runs) :
          \A v \in NumericChildren(runs[i].root) : runs[i].current_run > v
    /\ Len(config.test_sets) > 0 =>
          \A i, j \in 1..Len(runs) :
              i # j => runs[i].current_run # runs[j].current_run

\* Witness of C12: the second run on a root that held numbered children
\* before the first run is given the number after the first run's.
C12_Witness ==
    /\ Len(runs) = 2
    /\ Len(config.test_sets) > 0
    /\ NumericChildren(runs[1].root) # {}
    /\ runs[2].current_run = runs[1].current_run + 1
    /\ to_string(runs[1].current_run) \in Range(runs[2].root.children)

\* ---------------------------------------------------------------------
\* One run from end to end: a new root, one test set holding one supported
\* image, two workers, main compared to local, the whole grid.  Every tool
\* either ends with exit code 0 each time, or ends with the codes on which
\* a pair is swept to its end.

SucceedingExits == [t \in Tools |-> 0]

InitEndToEnd ==
    \E listing \in { l \in Listings :
                        Cardinality({ i \in 1..Len(l) : IsSupported(l[i]) }) = 1 } :
        /\ image_dir = <<listing>>
        /\ benchmark_dir = NewRoot
        /\ grid = Grid
        /\ tool_exits = {SucceedingExits, SweptExits}
        /\ Constructed(Context(2, 1, None, TRUE, None, NewRoot))
        /\ AtRest

SpecEndToEnd == InitEndToEnd /\ [][Next]_vars

\* The rows a task has appended to a log, in the order of the log.
RowsOfTask(t, key) ==
    SelectSeq(csv[key].rows,
              LAMBDA r : r.comp_image_name[1] = threads[t].payload.current_image_name)

\* Rows that walk the grid: every (distance, effort) pair of the ten
\* distances and five efforts once, the distance ascending and, within a
\* distance, the effort ascending.
WalksGrid(rows) ==
    /\ Len(rows) = Len(distances) * Len(efforts)
    /\ \A i \in 1..Len(rows) :
          /\ \E d \in 1..Len(distances) : rows[i].distance = distances[d]
          /\ \E e \in 1..Len(efforts) : rows[i].effort = efforts[e]
    /\ \A i, j \in 1..Len(rows) :
          i < j => \/ rows[i].distance < rows[j].distance
                   \/ /\ rows[i].distance = rows[j].distance
                      /\ rows[i].effort < rows[j].effort

\* A task that has ended and none of whose tools ended with a non-zero
\* exit code.
EndedWithSucceedingTools(t) ==
    /\ threads[t].state # "running"
    /\ ~threads[t].nonzero_exit

\* C14: a task whose tools all succeed has appended one comparison record
\* for each pair of the grid, distance ascending in the outer loop and
\* effort ascending in the inner loop.
C14_SweepWalksGridInOrder ==
    \A t \in 1..Len(threads) :
        EndedWithSucceedingTools(t) =>
            WalksGrid(RowsOfTask(t, threads[t].payload.current_res_comp_path))

\* C20: one test set with one supported image, two workers, revisions main
\* then local and every tool succeeding: once both revisions are done each
\* revision's results.csv holds one baseline row and its comparisons.csv
\* one row per pair of the grid, and once the run has ended
\* comparison_diffs.csv holds one row per pair and summary.csv one row.
C20_EndToEndRowCounts ==
    (/\ pc \in {"compare", "returned", "panicked"}
     /\ Len(threads) = 2
     /\ \A t \in 1..Len(threads) : EndedWithSucceedingTools(t))
    => /\ \A rev \in {DEFAULT_LIBJXL_COMMIT, "local"} :
            /\ Len(csv[<<"orig", 1, rev>>].rows) = 1
            /\ Len(csv[<<"comp", 1, rev>>].rows) = Len(Grid)
       /\ pc # "compare" =>
            /\ Len(out[<<1, DEFAULT_LIBJXL_COMMIT>>].comparison_diffs) = Len(Grid)
            /\ Len(out[<<1, DEFAULT_LIBJXL_COMMIT>>].summary) = 1

\* ---------------------------------------------------------------------
\* One test set whose directory holds any files: two sources with the same
\* stem, a file of an unsupported format, a file without an extension.

FileNames ==
    << <<1, "png">>, <<1, "jpeg">>, <<2, "png">>, <<3, "txt">>, <<4, None>> >>

RECURSIVE SubSeqsOf(_, _)
SubSeqsOf(names, k) ==
    IF k = 0 THEN { <<>> }
    ELSE LET rest == SubSeqsOf(names, k - 1)
         IN  rest \cup { Append(l, names[k]) : l \in rest }

InitFiles ==
    \E w \in 1..MaxWorkers :
      \E listing \in { l \in SubSeqsOf(FileNames, Len(FileNames)) : Len(l) <= MaxFiles } :
        /\ image_dir = <<listing>>
        /\ benchmark_dir = NewRoot
        /\ grid = SubSeq(Grid, 1, 1)
        /\ tool_exits = {SweptExits, EncoderFailsExits}
        /\ Constructed(Context(w, 1, None, FALSE, None, NewRoot))
        /\ AtRest

SpecFiles == InitFiles /\ [][Next]_vars

\* C15: a file whose extension is not a supported format, or that has no
\* extension, is skipped before dispatch: the step of the dispatcher on it
\* moves to the next entry, without a wait for a worker, a spawn, a move of
\* the round-robin cursor or an abort.
C15_UnsupportedEntrySkipped ==
    [][(/\ pc = "for_entry"
        /\ entry <= Len(Listing)
        /\ extension(Listing[entry]) \notin SupportedExtensions
        /\ pc' # pc \/ entry' # entry)
       => /\ pc' = "for_entry"
          /\ entry' = entry + 1
          /\ current_worker_id' = current_worker_id
          /\ workers' = workers
          /\ Len(threads') = Len(threads)
          /\ panic' = None]_vars

\* The identity of a comparison record.
IdentityTuple(r) == <<r.orig_image_name, r.comp_image_name, r.distance, r.effort>>

\* C17: in the comparison log of one revision and one test set no two rows
\* have the same identity (orig name, comp name, distance, effort),
\* whatever supported source files the test set holds.
C17_IdentityUniqueInLog ==
    \A k \in CsvKeys :
        k[1] = "comp" =>
            \A i, j \in 1..Len(csv[k].rows) :
                IdentityTuple(csv[k].rows[i]) = IdentityTuple(csv[k].rows[j]) => i = j

\* C18: execute_in_container returns the outer Err only when the process
\* could not be run; exit status success gives Ok(Ok(stdout)); a non-zero
\* exit gives Ok(Err(stderr)) when stderr is non-empty and Ok(Err(stdout))
\* when it is empty.
C18_ExitStatusIsNeverFatal ==
    call.op = "execute_in_container" =>
        LET o == call.arg
            r == call.result
        IN  /\ r.outer = "Err" <=> ~o.ran
            /\ o.ran /\ o.code = 0 =>
                  r.outer = "Ok" /\ r.inner = "Ok" /\ r.text = o.stdout
            /\ o.ran /\ o.code # 0 /\ o.stderr # "" =>
                  r.outer = "Ok" /\ r.inner = "Err" /\ r.text = o.stderr
            /\ o.ran /\ o.code # 0 /\ o.stderr = "" =>
                  r.outer = "Ok" /\ r.inner = "Err" /\ r.text = o.stdout

\* A tool that exits non-zero with nothing on stderr is reported by its stdout.
C18_Witness ==
    /\ call.op = "execute_in_container"
    /\ call.arg.ran /\ call.arg.code # 0
    /\ call.arg.stderr = "" /\ call.arg.stdout # ""
    /\ call.result = [outer |-> "Ok", inner |-> "Err", text |-> call.arg.stdout]

\* ---------------------------------------------------------------------
\* One CSV log written by the tasks of several workers: each task calls
\* write_csv_header and then write_csv for every record it appends.  A
\* line of the file is the header or the record <<writer, number>>.

MaxAppends == 2

Header == <<0, 0>>

InitCsv ==
    \E w \in 1..MaxWorkers :
        /\ image_dir = <<>>
        /\ benchmark_dir = NewRoot
        /\ grid = Grid
        /\ tool_exits = {SweptExits}
        /\ Constructed(Context(w, 0, None, FALSE, None, NewRoot))
        /\ runs = <<>>
        /\ container_ops = <<>>
        /\ call = NoCall
        /\ log_file = NoFile
        /\ writers = [x \in 1..w |-> [pc |-> "write_csv_header", appended |-> 0]]

\* write_csv_header: if path.exists() && path.metadata()?.len() > 0 { return Ok(()) }
HeaderCheck(x) ==
    /\ writers[x].pc = "write_csv_header"
    /\ writers' = [writers EXCEPT ![x].pc =
                       IF log_file.exists /\ log_file.lines # <<>>
                       THEN "write_csv" ELSE "from_path"]
    /\ UNCHANGED <<benchmarkerVars, benchmark_dir, runs, call, log_file>>

\* write_csv_header: csv::Writer::from_path creates the file or truncates it.
HeaderCreate(x) ==
    /\ writers[x].pc = "from_path"
    /\ log_file' = [exists |-> TRUE, lines |-> <<>>]
    /\ writers' = [writers EXCEPT ![x].pc = "write_record"]
    /\ UNCHANGED <<benchmarkerVars, benchmark_dir, runs, call>>

\* write_csv_header: write_record and flush write the header at the start
\* of the file, over what is there.
HeaderWrite(x) ==
    /\ writers[x].pc = "write_record"
    /\ log_file' = [log_file EXCEPT !.lines =
                        IF @ = <<>> THEN <<Header>> ELSE [@ EXCEPT ![1] = Header]]
    /\ writers' = [writers EXCEPT ![x].pc = "write_csv"]
    /\ UNCHANGED <<benchmarkerVars, benchmark_dir, runs, call>>

\* write_csv: the file is opened in append mode and the record is written.
WriteCsv(x) ==
    /\ writers[x].pc = "write_csv"
    /\ log_file.exists
    /\ log_file' = [log_file EXCEPT !.lines = Append(@, <<x, writers[x].appended + 1>>)]
    /\ writers' = [writers EXCEPT
                      ![x].appended = @ + 1,
                      ![x].pc = IF writers[x].appended + 1 = MaxAppends
                                THEN "done" ELSE "write_csv_header"]
    /\ UNCHANGED <<benchmarkerVars, benchmark_dir, runs, call>>

NextCsv ==
    \/ \E x \in DOMAIN writers : HeaderCheck(x)
    \/ \E x \in DOMAIN writers : HeaderCreate(x)
    \/ \E x \in DOMAIN writers : HeaderWrite(x)
    \/ \E x \in DOMAIN writers : WriteCsv(x)

SpecCsv == InitCsv /\ [][NextCsv]_vars

\* C16: once every worker is idle the log holds its header exactly once,
\* as its first line, and every record any worker appended.
C16_LogIsAppendOnly ==
    (\A x \in DOMAIN writers : writers[x].pc = "done") =>
        /\ log_file.lines[1] = Header
        /\ \A i \in 2..Len(log_file.lines) : log_file.lines[i] # Header
        /\ \A x \in DOMAIN writers : \A k \in 1..MaxAppends :
              \E i \in 1..Len(log_file.lines) : log_file.lines[i] = <<x, k>>

\* ---------------------------------------------------------------------
\* A run whose encoder and metric tools may exit non-zero: cjxl and
\* ssimulacra2 exit with either code, docker cp succeeds, and
\* butteraugli_main exits as calculate_butteraugli expects it to.

EncoderOrMetricExits ==
    { e \in Exits : /\ e["ci.sh"] = 0 /\ e["docker_cp"] = 0 /\ e["butteraugli_main"] = 1
                    /\ e["cp_local_diff"] = 0 /\ e["git_apply"] = 0 }

InitTools ==
    \E w \in 1..MaxWorkers, cl \in BOOLEAN :
      \E listing \in { l \in Listings : \E i \in 1..Len(l) : IsSupported(l[i]) } :
        /\ image_dir = <<listing>>
        /\ benchmark_dir = NewRoot
        /\ grid = SubSeq(Grid, 1, 1)
        /\ tool_exits = EncoderOrMetricExits
        /\ Constructed(Context(w, 1, None, cl, None, NewRoot))
        /\ AtRest

SpecTools == InitTools /\ [][Next]_vars

\* A task that has ended because one of its tools exited non-zero.
EndedByToolFailure(t) ==
    threads[t].state = "panicked" /\ threads[t].nonzero_exit

\* C19: a non-zero exit of the encoder or of a metric tool in a task is
\* local and non-fatal: the step in which the task ends leaves the
\* dispatcher and the other tasks as they were, the worker of the task is
\* joined and Idle again at the barrier, and the run is not aborted when
\* its results are compared.
C19_ToolFailureIsLocal ==
    [][/\ \A t \in 1..Len(threads) :
             (threads[t].state = "running" /\ threads'[t].state = "panicked")
                => /\ pc' = pc /\ panic' = panic /\ workers' = workers
                   /\ \A u \in 1..Len(threads) : u # t => threads'[u] = threads[u]
       /\ pc = "compare" => \A x \in DOMAIN workers : Idle(x)
       /\ (pc = "compare" /\ \E t \in 1..Len(threads) : EndedByToolFailure(t))
             => pc' # "panicked"]_vars

\* ---------------------------------------------------------------------
\* The Context of the Benchmarker against the one it was constructed with.

\* C21: the Context is immutable after initialisation: its test-set names,
\* worker count, revision and selected comparison revisions
\* (compare_to_local, compare_to_commit) stay as configured at startup.
C21_ContextImmutable ==
    /\ context.num_workers = config.num_workers
    /\ context.test_sets = config.test_sets
    /\ context.libjxl_commit = config.libjxl_commit
    /\ context.compare_to_local = config.compare_to_local
    /\ context.compare_to_commit = config.compare_to_commit

\* ---------------------------------------------------------------------
\* Workers and their containers

\* C22: worker i is bound to the container named with suffix i, for as
\* long as it lives; distinct workers have distinct container names, and
\* the background task of worker i addresses container i only.
C22_WorkerOwnsItsContainer ==
    /\ \A x \in DOMAIN workers :
          workers[x].docker_manager.container_name = <<CONTAINER_NAME, x>>
    /\ \A x, y \in DOMAIN workers :
          x # y => workers[x].docker_manager.container_name
                      # workers[y].docker_manager.container_name
    /\ \A t \in 1..Len(threads) :
          threads[t].docker.container_name = <<CONTAINER_NAME, threads[t].worker>>

\* Two tasks in flight at once, each on the container of its own worker.
C22_Witness ==
    \E t, u \in Running :
        /\ threads[t].worker # threads[u].worker
        /\ threads[t].docker.container_name # threads[u].docker.container_name
        /\ threads[t].docker = workers[threads[t].worker].docker_manager

\* ---------------------------------------------------------------------
\* ImageReader::new on the files a task reads: the source image of the
\* task and the artifacts of its sweep.  A file name is the sequence of
\* its characters.  The files exist and decode.

\* An Option whose value is a number or a sequence.
Some(v) == [some |-> TRUE, value |-> v]
Absent == [some |-> FALSE]

\* str::split on a one-character pattern.
RECURSIVE split(_, _)
split(s, c) ==
    IF s = <<>> THEN << <<>> >>
    ELSE LET rest == split(Tail(s), c)
         IN  IF Head(s) = c THEN << <<>> >> \o rest
             ELSE << <<Head(s)>> \o rest[1] >> \o Tail(rest)

\* [&str]::join
RECURSIVE join(_, _)
join(parts, c) ==
    IF parts = <<>> THEN <<>>
    ELSE IF Len(parts) = 1 THEN parts[1]
    ELSE parts[1] \o <<c>> \o join(Tail(parts), c)

\* path.extension().unwrap_or(""): what follows the last "." of the file
\* name; nothing when there is no "." or the only "." starts the name.
extension_or_empty(file_name) ==
    LET parts == split(file_name, ".")
    IN  IF Len(parts) = 1 THEN <<>>
        ELSE IF Len(parts) = 2 /\ parts[1] = <<>> THEN <<>>
        ELSE parts[Len(parts)]

\* The extensions ImageFormat::from(String) knows, as spelled.
FormatSpellings ==
    { <<"j", "x", "l">>,
       <<"p", "n", "g">>,
       <<"j", "p", "e", "g">>,
       <<"g", "i", "f">>,
       <<"w", "e", "b", "p">>,
       <<"p", "p", "m">>,
       <<"t", "i", "f", "f">>,
       <<"t", "g", "a">>,
       <<"d", "d", "s">>,
       <<"b", "m", "p">>,
       <<"i", "c", "o">>,
       <<"h", "d", "r">>,
       <<"e", "x", "r">>,
       <<"f", "f">>,
       <<"a", "v", "i", "f">>,
       <<"q", "o", "i">> }

\* str::parse::<f32> on decimal notation: an optional sign, digits with at
\* most one ".", at least one digit.  The value is kept in tenths; the
\* names of the model carry at most one fractional digit and no exponent.
parse_f32(s) ==
    LET unsigned == IF s # <<>> /\ Head(s) \in {"+", "-"} THEN Tail(s) ELSE s
        negative == s # <<>> /\ Head(s) = "-"
        parts == split(unsigned, ".")
        whole == parts[1]
        frac == IF Len(parts) = 2 THEN parts[2] ELSE <<>>
        w == parse_digits(whole, 0)
        f == parse_digits(frac, 0)
        tenths == w * 10 + (IF frac = <<>> THEN 0 ELSE DigitValue(Head(frac)))
    IN  IF Len(parts) > 2 \/ (whole = <<>> /\ frac = <<>>)
           \/ w = ParseErr \/ f = ParseErr
        THEN Absent
        ELSE Some(IF negative THEN 0 - tenths ELSE tenths)

\* str::parse::<u32>, for names too short to overflow.
parse_u32(s) ==
    IF parse_usize(s) = ParseErr THEN Absent ELSE Some(parse_usize(s))

\* Display of an f64 held in tenths: 0.5, 1, 1.5, 14.
display_f64(tenths) ==
    IF tenths % 10 = 0 THEN to_string(tenths \div 10)
    ELSE to_string(tenths \div 10) \o <<".">> \o to_string(tenths % 10)

\* ImageReader::read_jxl: the provenance is read back from the file name.
read_jxl(file_name) ==
    LET file_name_parts == split(file_name, "-")
        n == Len(file_name_parts)
    IN  IF n < 2 THEN [status |-> "panic"]
        ELSE [status |-> "ok",
              image_name |-> file_name,
              jxl_orig_image_name |-> Some(join(SubSeq(file_name_parts, 1, n - 2), "-")),
              jxl_distance |-> parse_f32(file_name_parts[n - 1]),
              jxl_effort |-> parse_u32(split(file_name_parts[n], ".")[1])]

\* ImageReader::new
ImageReader_new(file_name) ==
    LET ext == extension_or_empty(file_name)
    IN  IF ext \notin FormatSpellings THEN [status |-> "panic"]
        ELSE IF ext = <<"j", "x", "l">> THEN read_jxl(file_name)
        ELSE [status |-> "ok",
              image_name |-> file_name,
              jxl_orig_image_name |-> Absent,
              jxl_distance |-> Absent,
              jxl_effort |-> Absent]

\* run_benchmark: the image name is the file name up to its first ".".
current_image_name(file_name) == split(file_name, ".")[1]

\* JXLCompressionBenchmark::run: format!("{}-{}-{}.{}", name, distance, effort, "jxl")
comp_image_name(image_name, distance, effort) ==
    image_name \o <<"-">> \o display_f64(distance) \o <<"-">> \o to_string(effort)
        \o <<".", "j", "x", "l">>

\* Source images of supported formats, as a test set may hold them.
SourceFiles ==
    { <<"a", ".", "p", "n", "g">>,
      <<"a", ".", "j", "p", "e", "g">>,
      <<"a", ".", "j", "x", "l">>,
      <<"a", "-", "b", ".", "p", "n", "g">>,
      <<"a", "-", "b", ".", "j", "x", "l">>,
      <<"a", "-", "1", "-", "5", ".", "j", "x", "l">>,
      <<"a", "-", "b", "-", "c", ".", "j", "x", "l">>,
      <<"a", ".", "b", ".", "p", "n", "g">> }

\* The source image of a task is read.
ReadSource ==
    /\ \E f \in SourceFiles :
          call' = [op |-> "ImageReader::new", arg |-> f, artifact |-> FALSE,
                   result |-> ImageReader_new(f)]
    /\ UNCHANGED <<benchmarkerVars, benchmark_dir, runs, log_file, writers>>

\* An artifact of the sweep of a task is read.
ReadArtifact ==
    /\ \E f \in SourceFiles, i \in 1..Len(Grid) :
          LET name == comp_image_name(current_image_name(f),
                                      Grid[i].distance, Grid[i].effort)
          IN  call' = [op |-> "ImageReader::new", arg |-> name, artifact |-> TRUE,
                       written_for |-> [name |-> current_image_name(f),
                                        distance |-> Grid[i].distance,
                                        effort |-> Grid[i].effort],
                       result |-> ImageReader_new(name)]
    /\ UNCHANGED <<benchmarkerVars, benchmark_dir, runs, log_file, writers>>

NextImages ==
    \/ ReadSource
    \/ ReadArtifact

SpecImages == InitCalls /\ [][NextImages]_vars

\* C23: in every record produced the provenance fields (origin image
\* name, distance, effort) are present only for an encoder-produced
\* artifact; for a source image of any supported format they are absent.
C23_ProvenanceOnlyForArtifacts ==
    (call.op = "ImageReader::new" /\ call.result.status = "ok" /\ ~call.artifact)
        => /\ ~call.result.jxl_orig_image_name.some
           /\ ~call.result.jxl_distance.some
           /\ ~call.result.jxl_effort.some

\* ---------------------------------------------------------------------
\* The metrics

\* C25: file_size_ratio returns comp/orig for the denominator "orig" and
\* orig/comp for the denominator "comp", and 0 when the selected
\* denominator is 0.
C25_FileSizeRatio ==
    call.op = "file_size_ratio" =>
        LET a == call.arg
            r == call.result
            selected == IF a.denom = "orig" THEN a.orig ELSE a.comp
            other == IF a.denom = "orig" THEN a.comp ELSE a.orig
        IN  a.denom \in {"orig", "comp"} =>
              /\ r.status = "ok"
              /\ r.den # 0
              /\ selected # 0 => r.num * selected = other * r.den
              /\ selected = 0 => r.num = 0

\* The ratio of a size to a compressed size of 0.
C25_Witness ==
    /\ call.op = "file_size_ratio"
    /\ call.arg.denom = "comp"
    /\ call.arg.comp = 0
    /\ call.arg.orig # 0
    /\ call.result.num = 0

\* What a tool has printed: a sequence of lines (str::lines), a line being
\* the sequence of its whitespace-separated tokens (str::split_whitespace)
\* and a token the sequence of its characters.  A line of one token is
\* that token with no blank around it.
Tokens == { <<"1", ".", "5">>, <<"0", ".", "7">>, <<"x">> }

Lines == { <<>> } \cup { <<t>> : t \in Tokens }
             \cup { <<t, u>> : t \in Tokens, u \in Tokens }

MaxLines == 2

Texts == UNION { [1..n -> Lines] : n \in 0..MaxLines }

\* str::parse::<f64>, in tenths, on the decimal notation of parse_f32.
parse_f64(s) == parse_f32(s)

\* .parse::<f64>().unwrap_or(0.0)
parse_or_zero(s) == IF parse_f64(s).some THEN parse_f64(s).value ELSE 0

\* metrics::calculate_butteraugli on what execute_butteraugli returned.
calculate_butteraugli(result) ==
    IF result.outer # "Ok" THEN [status |-> "panic"]
    ELSE IF result.inner # "Err" THEN [status |-> "panic"]
    ELSE LET output == result.text
         IN  IF output = <<>> THEN [status |-> "panic"]
             ELSE IF output[Len(output)] = <<>> THEN [status |-> "panic"]
             ELSE [status |-> "ok",
                   butteraugli |-> IF Len(output[1]) = 1
                                   THEN parse_or_zero(output[1][1]) ELSE 0,
                   pnorm |-> LET last == output[Len(output)]
                             IN  parse_or_zero(last[Len(last)])]

CalculateButteraugli ==
    /\ call = NoCall
    /\ \E outer \in {"Ok", "Err"}, inner \in {"Ok", "Err"}, text \in Texts :
          LET result == IF outer = "Err"
                        THEN [outer |-> "Err", inner |-> "", text |-> <<>>]
                        ELSE [outer |-> "Ok", inner |-> inner, text |-> text]
          IN  call' = [op |-> "calculate_butteraugli", arg |-> result,
                       result |-> calculate_butteraugli(result)]
    /\ UNCHANGED <<benchmarkerVars, benchmark_dir, runs, log_file, writers>>

SpecMetrics == InitCalls /\ [][CalculateButteraugli]_vars

\* C24: calculate_butteraugli tolerates any tool outcome: it returns, the
\* distance being the first output line parsed as a number and the p-norm
\* the last token of the last line parsed as a number, each 0.0 when it
\* does not parse.
C24_ButteraugliToleratesAnyOutcome ==
    call.op = "calculate_butteraugli" =>
        /\ call.result.status = "ok"
        /\ LET output == call.arg.text
               last == output[Len(output)]
           IN  /\ call.result.butteraugli =
                     (IF Len(output[1]) = 1 /\ parse_f64(output[1][1]).some
                      THEN parse_f64(output[1][1]).value ELSE 0)
               /\ call.result.pnorm =
                     (IF parse_f64(last[Len(last)]).some
                      THEN parse_f64(last[Len(last)]).value ELSE 0)

\* ---------------------------------------------------------------------
\* Consistency of the pool

\* C26: a worker flagged working holds a thread handle, the two aborts on
\* an inconsistent pool are never reached, and once wait_for_all_workers
\* has returned no worker is flagged working or holds a handle.
C26_BusyWorkerHoldsHandle ==
    /\ \A x \in DOMAIN workers :
          workers[x].working => workers[x].thread_handle # NoHandle
    /\ panic \notin {"Working worker thread handle is None", "Worker is still working"}
    /\ pc = "compare" =>
          \A x \in DOMAIN workers :
              ~workers[x].working /\ workers[x].thread_handle = NoHandle

\* The barrier has returned after every worker of a pool of two ran a task.
C26_Witness ==
    /\ pc = "compare"
    /\ context.num_workers = 2
    /\ \A x \in DOMAIN workers : \E t \in 1..Len(threads) : threads[t].worker = x
    /\ \A x \in DOMAIN workers : Idle(x)

\* ---------------------------------------------------------------------
\* The order of what is done on a container

\* C27: for every dispatch, on the container of the target worker: the
\* task spawned before on it has been joined, then clean, then exactly one
\* revision switch (apply_local_as_diff if and only if the revision is
\* "local", otherwise change_libjxl_commit with the revision), then
\* build, and only then the spawn of the task.
C27_OrderOfADispatch ==
    \A x \in DOMAIN workers :
        LET ops == OpsOn(workers[x].docker_manager.container_name)
        IN  \A i \in 1..Len(ops) :
                ops[i].op = "spawn" =>
                    /\ i >= 4
                    /\ ops[i - 1].op = "build_libjxl"
                    /\ ops[i - 2].op = IF ops[i].arg = "local"
                                       THEN "apply_local_as_diff"
                                       ELSE "change_libjxl_commit"
                    /\ ops[i - 2].op = "change_libjxl_commit" => ops[i - 2].arg = ops[i].arg
                    /\ ops[i - 3].op = "clean_libjxl"
                    /\ i > 4 => /\ ops[i - 4].op = "join"
                                /\ i > 5
                                /\ ops[i - 5].op = "spawn"

\* A worker has been handed a task of a commit and then a task of "local".
C27_Witness ==
    \E x \in DOMAIN workers :
        LET ops == OpsOn(workers[x].docker_manager.container_name)
        IN  \E i, j \in 1..Len(ops) :
                /\ i < j
                /\ ops[i].op = "spawn" /\ ops[i].arg # "local"
                /\ ops[j].op = "spawn" /\ ops[j].arg = "local"

\* ---------------------------------------------------------------------
\* A run in which the build script of a dispatch may fail; the tools of a
\* task end as on a swept pair, the encoder being there or not.

BuildFailsExits ==
    [t \in Tools |-> IF t \in {"ci.sh", "butteraugli_main"} THEN 1 ELSE 0]

InitBuild ==
    \E w \in 1..MaxWorkers, cl \in BOOLEAN :
      \E listing \in { l \in Listings : \E i \in 1..Len(l) : IsSupported(l[i]) } :
        /\ image_dir = <<listing>>
        /\ benchmark_dir = NewRoot
        /\ grid = SubSeq(Grid, 1, 1)
        /\ tool_exits = {SweptExits, BuildFailsExits}
        /\ Constructed(Context(w, 1, None, cl, None, NewRoot))
        /\ AtRest

SpecBuild == InitBuild /\ [][Next]_vars

\* A build script has failed in this run.
SomeBuildFailed ==
    \E i \in 1..Len(container_ops) :
        container_ops[i].op = "build_libjxl" /\ container_ops[i].status # 0

\* C28: a failing build never aborts the run: the step that builds goes on
\* to the dispatch whatever the exit status of the build script, and a run
\* in which a build failed is not aborted afterwards either.
C28_FailingBuildNeverAborts ==
    [][/\ (pc = "clean_libjxl" /\ Len(container_ops') = Len(container_ops) + 3
           /\ container_ops'[Len(container_ops')].status # 0)
             => pc' = "run"
       /\ (SomeBuildFailed /\ pc # "clean_libjxl") => pc' # "panicked"]_vars

\* ---------------------------------------------------------------------
\* Termination.  Every external call terminates and the threads are
\* scheduled: a step that can be taken is eventually taken.

InitTerminates ==
    \E w \in 1..MaxWorkers, cl \in BOOLEAN :
      \E listing \in Listings :
        /\ image_dir = <<listing>>
        /\ benchmark_dir = NewRoot
        /\ grid = SubSeq(Grid, 1, 1)
        /\ tool_exits = {SweptExits, EncoderFailsExits}
        /\ Constructed(Context(w, 1, None, cl, None, NewRoot))
        /\ AtRest

SpecTerminates == InitTerminates /\ [][Next]_vars /\ WF_vars(Next)

\* C29: run_benchmark terminates: it eventually returns or aborts, every
\* wait of the dispatcher for a worker or for the barrier eventually
\* proceeds, and when run_benchmark has returned every dispatched task has
\* ended and all workers are Idle.
C29_RunBenchmarkTerminates ==
    /\ <>(pc \in {"returned", "panicked"})
    /\ (pc = "for_entry") ~> (pc # "for_entry")
    /\ (pc = "wait_for_all_workers") ~> (pc # "wait_for_all_workers")
    /\ [](pc = "returned" => Running = {} /\ \A x \in DOMAIN workers : Idle(x))

\* run_benchmark has returned after a dispatch had to wait for the only
\* worker of the pool.
C29_Witness ==
    /\ pc = "returned"
    /\ context.num_workers = 1
    /\ Len(threads) >= 2
    /\ Running = {}

\* ---------------------------------------------------------------------
\* What a background task can reach

\* C30: the round-robin cursor, the busy flags and the thread handles are
\* written by the dispatching thread only: a step of a background task
\* leaves them as they are, and the task works on its own copy of the
\* payload and of the manager, which no step of the dispatcher changes.
C30_PoolOwnedByDispatcher ==
    [][/\ (\E t \in 1..Len(threads) :
              Len(threads') = Len(threads) /\ threads'[t] # threads[t])
            => /\ workers' = workers
               /\ current_worker_id' = current_worker_id
               /\ pc' = pc
       /\ \A t \in 1..Len(threads) :
              /\ threads'[t].payload = threads[t].payload
              /\ threads'[t].docker = threads[t].docker]_vars

\* A task has taken a step while its worker is flagged working and holds
\* its handle, and the payload of another worker has been rewritten since.
C30_Witness ==
    \E t \in Running :
        /\ threads[t].step = 1
        /\ workers[threads[t].worker].working
        /\ workers[threads[t].worker].thread_handle = t
        /\ \E u \in 1..Len(threads) : u > t

\* ---------------------------------------------------------------------
\* The payload of a task

\* The payload run_benchmark writes into worker x for a dispatch.
PayloadOfDispatch(d) ==
    [libjxl_commit |-> d.commit,
     current_worker_id |-> d.worker,
     current_res_orig_path |-> <<"orig", d.test_set, d.commit>>,
     current_res_comp_path |-> <<"comp", d.test_set, d.commit>>,
     current_image_name |-> d.file[1],
     current_image_file_path |-> <<d.test_set>> \o d.file,
     current_image_format |-> from_file_name(d.file),
     current_test_set |-> d.test_set]

\* A step of a background task: a thread already spawned changes.
TaskStep ==
    /\ Len(threads') = Len(threads)
    /\ \E t \in 1..Len(threads) : threads'[t] # threads[t]

\* C31: the payload of a task is the snapshot taken at its dispatch: it is
\* the payload the dispatcher wrote for that dispatch, no step of a task
\* changes the payload of any worker, and no step of the dispatcher (its
\* rewriting of a payload for the next dispatch included) changes the
\* payload of a task spawned before.
C31_PayloadIsSnapshot ==
    /\ [](\A t \in 1..Len(threads) :
             threads[t].payload = PayloadOfDispatch(dispatched[t]))
    /\ [][/\ TaskStep =>
               \A x \in DOMAIN workers : workers'[x].payload = workers[x].payload
           /\ \A t \in 1..Len(threads) :
                  threads'[t].payload = threads[t].payload]_vars

\* A task is running on the payload of its dispatch while its own worker
\* still holds that payload, the payload of another worker has been
\* rewritten for a later dispatch, and the payload a task that has ended
\* worked on has been rewritten since.
C31_Witness ==
    /\ \E t \in Running : \E u \in 1..Len(threads) :
          /\ threads[t].step = 1
          /\ u > t
          /\ threads[u].worker # threads[t].worker
          /\ workers[threads[u].worker].payload # threads[t].payload
          /\ workers[threads[t].worker].payload = threads[t].payload
    /\ \E v \in 1..Len(threads) :
          /\ v \notin Running
          /\ workers[threads[v].worker].payload # threads[v].payload

\* ---------------------------------------------------------------------
\* Benchmarker::new: the construction of the pool

\* The exit codes of docker build and of docker run.
SetupCodes == ExitCodes \X ExitCodes

\* DockerManager::setup: docker build, answered by its own error when it
\* fails, then docker run, whose error is passed on by the ? operator.
setup(build_code, run_code) ==
    IF execute_command(ToolOutput(build_code)).outer # "Ok"
    THEN [outer |-> "Err", inner |-> "", text |-> "Failed to build docker image"]
    ELSE execute_command(ToolOutput(run_code))

\* Mutant: the result of setup is dropped, as in let _ = ..setup(..).
setup_result_dropped(result) == TRUE

\* let _ = docker_manager.setup(worker.id).unwrap(): the unwrap returns on
\* Ok and panics on Err.
setup_unwrap_returns(result) == result.outer = "Ok"

\* A Benchmarker whose context is built and whose pool is still empty.
UnderConstruction(c) ==
    /\ config = c
    /\ context = c
    /\ workers = [x \in {} |-> BenchmarkWorker(x)]
    /\ current_worker_id = 0
    /\ threads = <<>>
    /\ pc = "new"
    /\ commit = None
    /\ comparison_csvs = <<>>
    /\ test_set = 0
    /\ entry = 0
    /\ wid = 0
    /\ csv = EmptyDisk
    /\ out = EmptyOut
    /\ dispatched = <<>>
    /\ compare_calls = <<>>
    /\ panic = None

\* for x in 0..b.context.num_workers: one worker is built, its manager is
\* set up and the worker is pushed; new returns after the last one.
new_worker ==
    /\ pc = "new"
    /\ LET x == Cardinality(DOMAIN workers)
       IN  /\ x < context.num_workers
           /\ \E codes \in SetupCodes :
                LET result == setup(codes[1], codes[2])
                IN  /\ container_ops' =
                          Append(container_ops,
                                 Op(DockerManager(x), "setup", x,
                                    IF result.outer = "Ok" THEN 0 ELSE 1))
                    /\ IF setup_unwrap_returns(result)
                       THEN /\ workers' = [y \in DOMAIN workers \cup {x} |->
                                              IF y = x THEN BenchmarkWorker(x)
                                              ELSE workers[y]]
                            /\ pc' = IF x + 1 = context.num_workers
                                     THEN "run_benchmark" ELSE "new"
                            /\ panic' = panic
                       ELSE /\ workers' = workers
                            /\ Panic("called Result::unwrap() on an Err value")
    /\ UNCHANGED <<otherVars, grid, benchmark_dir, runs, image_dir, config, context,
                   current_worker_id, threads, commit, comparison_csvs, test_set,
                   entry, wid, csv, out, dispatched, compare_calls>>

\* One test set with a supported file, every size of the pool, a
\* comparison to local or none.
InitSetup ==
    \E w \in 1..MaxWorkers, cl \in BOOLEAN :
      \E listing \in { l \in Listings : \E i \in 1..Len(l) : IsSupported(l[i]) } :
        /\ image_dir = <<listing>>
        /\ benchmark_dir = NewRoot
        /\ grid = SubSeq(Grid, 1, 1)
        /\ tool_exits = {SweptExits, EncoderFailsExits}
        /\ UnderConstruction(Context(w, 1, None, cl, None, NewRoot))
        /\ AtRest

NextSetup ==
    \/ new_worker
    \/ Next

SpecSetup == InitSetup /\ [][NextSetup]_vars

\* The calls of setup so far, in order.
Setups == SelectSeq(container_ops, LAMBDA o : o.op = "setup")

\* C32: setup is called once for each worker of the pool, on the worker's
\* own container, before anything else is done on any container; when a
\* call of setup fails the construction is aborted: the process has
\* panicked, no further worker is set up and no task is ever dispatched.
C32_SetupOncePerWorkerBeforeDispatch ==
    /\ \A i \in 1..Len(Setups) :
          /\ Setups[i].arg = i - 1
          /\ Setups[i].container = DockerManager(i - 1).container_name
          /\ container_ops[i] = Setups[i]
    /\ \A x \in DOMAIN workers : x + 1 <= Len(Setups) /\ Setups[x + 1].status = 0
    /\ (dispatched # <<>> \/ threads # <<>> \/ pc \notin {"new", "panicked"}) =>
          /\ Len(Setups) = context.num_workers
          /\ DOMAIN workers = 0..(context.num_workers - 1)
    /\ \A i \in 1..Len(Setups) : Setups[i].status # 0 =>
          /\ i = Len(Setups)
          /\ pc = "panicked"
          /\ dispatched = <<>> /\ threads = <<>>
          /\ Len(container_ops) = Len(Setups)

\* The first worker is set up, the setup of the second one fails: the
\* construction has panicked with one worker in the pool and no dispatch.
C32_Witness ==
    /\ Len(Setups) = 2
    /\ Setups[1].status = 0
    /\ Setups[2].status # 0
    /\ DOMAIN workers = {0}
    /\ pc = "panicked"
    /\ dispatched = <<>>

\* ---------------------------------------------------------------------
\* The baseline lookup of the sweep

\* C33: whenever a task reaches the baseline lookup of a grid pair, the
\* lookup returns the record of the source image the task was dispatched
\* for: it is found, and it is the record of no other image.
C33_BaselineLookupFindsOwnRecord ==
    [][\A t \in 1..Len(threads) :
           (/\ threads[t].state = "running"
            /\ threads[t].step >= 1
            /\ Len(threads') = Len(threads)
            /\ threads'[t] # threads[t]
            /\ csv' # csv)
           => LET payload == threads[t].payload
                  pair == grid[threads[t].step]
                  orig_entry == compare_to_orig_find_entry(
                                    csv[payload.current_res_orig_path].rows,
                                    <<payload.current_image_name,
                                      pair.distance, pair.effort>>)
              IN  orig_entry.image_name =
                      <<payload.current_image_file_path[2],
                        payload.current_image_file_path[3]>>]_vars

\* ---------------------------------------------------------------------
\* The provenance read back from a file name

\* The number of "-" in a file name.
Hyphens(file_name) == Len(split(file_name, "-")) - 1

\* C34: reading a .jxl file never aborts; for an artifact written as
\* <name>-<distance>-<effort>.jxl the name, the distance and the effort it
\* was written for are recovered; for a .jxl name with fewer than two "-"
\* the three fields are absent.
C34_ProvenanceRoundTrips ==
    (call.op = "ImageReader::new" /\ extension_or_empty(call.arg) = <<"j", "x", "l">>)
        => /\ call.result.status = "ok"
           /\ call.artifact =>
                 /\ call.result.jxl_orig_image_name = Some(call.written_for.name)
                 /\ call.result.jxl_distance = Some(call.written_for.distance)
                 /\ call.result.jxl_effort = Some(call.written_for.effort)
           /\ (~call.artifact /\ Hyphens(call.arg) < 2) =>
                 /\ ~call.result.jxl_orig_image_name.some
                 /\ ~call.result.jxl_distance.some
                 /\ ~call.result.jxl_effort.some

\* ---------------------------------------------------------------------
\* The provenance columns of the ImageRecord log.  A line of results.csv
\* is kept as its image name and its three provenance cells, each cell
\* the sequence of its characters.

MaxLogRows == 2

\* Display of JXLString, JXLf32 and JXLu32: nothing for None.
JXLString_to_string(v) == IF v.some THEN v.value ELSE <<>>
JXLf32_to_string(v) == IF v.some THEN display_f64(v.value) ELSE <<>>
JXLu32_to_string(v) == IF v.some THEN to_string(v.value) ELSE <<>>

\* ImageFileDataCSV::write_csv: the line written for a record.
write_record(record) ==
    [image_name |-> record.image_name,
     jxl_orig_image_name |-> JXLString_to_string(record.jxl_orig_image_name),
     jxl_distance |-> JXLf32_to_string(record.jxl_distance),
     jxl_effort |-> JXLu32_to_string(record.jxl_effort)]

\* From<String> for JXLString, JXLf32 and JXLu32: None for the empty
\* string, and value.parse().unwrap() for the numbers.
JXLString_from(cell) ==
    [status |-> "ok", value |-> IF cell = <<>> THEN Absent ELSE Some(cell)]

JXLf32_from(cell) ==
    IF cell = <<>> THEN [status |-> "ok", value |-> Absent]
    ELSE IF parse_f32(cell).some THEN [status |-> "ok", value |-> parse_f32(cell)]
    ELSE [status |-> "panic"]

JXLu32_from(cell) ==
    IF cell = <<>> THEN [status |-> "ok", value |-> Absent]
    ELSE IF parse_u32(cell).some THEN [status |-> "ok", value |-> parse_u32(cell)]
    ELSE [status |-> "panic"]

\* The record read_entry and find_entry build of a line:
\* record[10].to_string().into(), record[11].to_string().into(),
\* record[12].to_string().into().
record_into(line) ==
    LET name == JXLString_from(line.jxl_orig_image_name)
        distance == JXLf32_from(line.jxl_distance)
        effort == JXLu32_from(line.jxl_effort)
    IN  IF distance.status = "panic" \/ effort.status = "panic"
        THEN [status |-> "panic"]
        ELSE [status |-> "ok",
              record |-> [image_name |-> line.image_name,
                          jxl_orig_image_name |-> name.value,
                          jxl_distance |-> distance.value,
                          jxl_effort |-> effort.value]]

\* The record read_csv builds of a line: record[10].to_string().into(),
\* record[11].parse::<f32>().unwrap().into(),
\* record[12].parse::<u32>().unwrap().into().
record_parse_unwrap(line) ==
    LET name == JXLString_from(line.jxl_orig_image_name)
        distance == parse_f32(line.jxl_distance)
        effort == parse_u32(line.jxl_effort)
    IN  IF ~distance.some \/ ~effort.some
        THEN [status |-> "panic"]
        ELSE [status |-> "ok",
              record |-> [image_name |-> line.image_name,
                          jxl_orig_image_name |-> name.value,
                          jxl_distance |-> distance,
                          jxl_effort |-> effort]]

\* ImageFileDataCSV::read_csv: every line, in order.
RECURSIVE read_csv_loop(_, _, _)
read_csv_loop(lines, i, data) ==
    IF i > Len(lines) THEN [status |-> "ok", data |-> data]
    ELSE LET r == record_parse_unwrap(lines[i])
         IN  IF r.status = "panic" THEN [status |-> "panic"]
             ELSE read_csv_loop(lines, i + 1, Append(data, r.record))

ImageFileDataCSV_read_csv(lines) == read_csv_loop(lines, 1, <<>>)

\* ImageFileDataCSV::read_entry: the lines up to the entry asked for
\* (counted from 0), then data[entry].
RECURSIVE read_entry_loop(_, _, _, _)
read_entry_loop(lines, i, index, data) ==
    IF i > Len(lines) \/ Len(data) > index
    THEN (IF index < Len(data) THEN [status |-> "ok", data |-> data[index + 1]]
          ELSE [status |-> "panic"])
    ELSE LET r == record_into(lines[i])
         IN  IF r.status = "panic" THEN [status |-> "panic"]
             ELSE read_entry_loop(lines, i + 1, index, Append(data, r.record))

ImageFileDataCSV_read_entry(lines, index) == read_entry_loop(lines, 1, index, <<>>)

\* ImageFileDataCSV::find_entry on column 0: each line is turned into a
\* record, the first one of that name is returned.
RECURSIVE find_entry_loop(_, _, _)
find_entry_loop(lines, i, value) ==
    IF i > Len(lines) THEN [status |-> "err", text |-> "NotFound"]
    ELSE LET r == record_into(lines[i])
         IN  IF r.status = "panic" THEN [status |-> "panic"]
             ELSE IF lines[i].image_name = value
             THEN [status |-> "ok", data |-> r.record]
             ELSE find_entry_loop(lines, i + 1, value)

ImageFileDataCSV_find_entry(lines, value) == find_entry_loop(lines, 1, value)

\* The records a task writes to results.csv: those of the source images
\* and of the artifacts of the first pairs of the grid.
LoggedFiles ==
    { f \in SourceFiles : ImageReader_new(f).status = "ok" }
    \cup { comp_image_name(current_image_name(f), Grid[i].distance, Grid[i].effort) :
             f \in { <<"a", ".", "p", "n", "g">>, <<"a", "-", "b", ".", "p", "n", "g">> },
             i \in 1..2 }

RecordOf(f) ==
    LET r == ImageReader_new(f)
    IN  [image_name |-> r.image_name,
         jxl_orig_image_name |-> r.jxl_orig_image_name,
         jxl_distance |-> r.jxl_distance,
         jxl_effort |-> r.jxl_effort]

\* The logs: up to MaxLogRows records of different files, as written.
LoggedRecords ==
    UNION { { [i \in 1..k |-> RecordOf(files[i])] :
                files \in { fs \in [1..k -> LoggedFiles] :
                               \A i, j \in 1..k : fs[i] = fs[j] => i = j } } :
            k \in 1..MaxLogRows }

WrittenLines(records) == [i \in 1..Len(records) |-> write_record(records[i])]

ReadCsv ==
    /\ call = NoCall
    /\ \E records \in LoggedRecords :
          call' = [op |-> "read_csv", arg |-> records,
                   result |-> ImageFileDataCSV_read_csv(WrittenLines(records))]
    /\ UNCHANGED <<benchmarkerVars, benchmark_dir, runs, log_file, writers>>

ReadEntry ==
    /\ call = NoCall
    /\ \E records \in LoggedRecords : \E index \in 0..(Len(records) - 1) :
          call' = [op |-> "read_entry", arg |-> records, entry |-> index,
                   result |-> ImageFileDataCSV_read_entry(WrittenLines(records), index)]
    /\ UNCHANGED <<benchmarkerVars, benchmark_dir, runs, log_file, writers>>

FindEntry ==
    /\ call = NoCall
    /\ \E records \in LoggedRecords : \E index \in 0..(Len(records) - 1) :
          call' = [op |-> "find_entry", arg |-> records, entry |-> index,
                   result |-> ImageFileDataCSV_find_entry(
                                  WrittenLines(records), records[index + 1].image_name)]
    /\ UNCHANGED <<benchmarkerVars, benchmark_dir, runs, log_file, writers>>

NextRecords ==
    \/ ReadCsv
    \/ ReadEntry
    \/ FindEntry

SpecRecords == InitCalls /\ [][NextRecords]_vars

\* The provenance fields absent in the record written are absent in the
\* record read.
AbsentKept(written, read) ==
    /\ ~written.jxl_orig_image_name.some => ~read.jxl_orig_image_name.some
    /\ ~written.jxl_distance.some => ~read.jxl_distance.some
    /\ ~written.jxl_effort.some => ~read.jxl_effort.some

\* C35: a log of records, written with an absent provenance field as the
\* empty string, is read back by every reader without a failure, absent
\* fields being absent again: read_csv returns a record for every line,
\* read_entry and find_entry the record of the line asked for.
C35_AbsentProvenanceRoundTrips ==
    /\ call.op = "read_csv" =>
          /\ call.result.status = "ok"
          /\ Len(call.result.data) = Len(call.arg)
          /\ \A i \in 1..Len(call.arg) :
                /\ call.result.data[i].image_name = call.arg[i].image_name
                /\ AbsentKept(call.arg[i], call.result.data[i])
    /\ call.op \in {"read_entry", "find_entry"} =>
          /\ call.result.status = "ok"
          /\ call.result.data.image_name = call.arg[call.entry + 1].image_name
          /\ AbsentKept(call.arg[call.entry + 1], call.result.data)

\* ---------------------------------------------------------------------
\* Benchmarker::teardown, called once run_benchmark has returned

\* The commands of DockerManager::teardown, in order: docker exec rm -rf
\* /temp/*, docker stop, docker rm, docker rmi.
TeardownCommands == <<"rm_temp", "stop", "rm", "rmi">>

\* The exit codes of the commands of one teardown.
TeardownCodes == [1..Len(TeardownCommands) -> ExitCodes]

\* The commands of one teardown that are run: each is followed by ?, so
\* the first one that fails is the last one.
CommandsRun(codes) ==
    IF \E i \in 1..Len(TeardownCommands) : codes[i] # 0
    THEN CHOOSE i \in 1..Len(TeardownCommands) :
            codes[i] # 0 /\ \A j \in 1..(i - 1) : codes[j] = 0
    ELSE Len(TeardownCommands)

\* DockerManager::teardown
DockerManager_teardown(codes) ==
    execute_command(ToolOutput(codes[CommandsRun(codes)]))

teardown_ops(docker_manager, codes) ==
    [i \in 1..CommandsRun(codes) |->
        Op(docker_manager, TeardownCommands[i], "", codes[i])]

\* for worker in &mut self.workers { ..teardown().unwrap(); }: the body
\* of the loop for the next worker, wid being the number of workers done.
teardown ==
    /\ pc \in {"returned", "teardown"}
    /\ LET x == IF pc = "returned" THEN 0 ELSE wid
       IN  /\ x < context.num_workers
           /\ \E codes \in TeardownCodes :
                /\ container_ops' =
                      container_ops \o teardown_ops(workers[x].docker_manager, codes)
                /\ IF DockerManager_teardown(codes).outer = "Ok"
                   THEN /\ wid' = x + 1
                        /\ pc' = IF x + 1 = context.num_workers
                                 THEN "torn_down" ELSE "teardown"
                        /\ panic' = panic
                   ELSE /\ wid' = x
                        /\ Panic("called Result::unwrap() on an Err value")
    /\ UNCHANGED <<otherVars, grid, benchmark_dir, runs, image_dir, config, context,
                   workers, current_worker_id, threads, commit, comparison_csvs,
                   test_set, entry, csv, out, dispatched, compare_calls>>

NextTeardown ==
    \/ Next
    \/ teardown

SpecTeardown == InitTerminates /\ [][NextTeardown]_vars

\* The teardown has ended, by its return or by a panic.
TeardownEnded ==
    \/ pc = "torn_down"
    \/ /\ pc = "panicked"
       /\ container_ops # <<>>
       /\ container_ops[Len(container_ops)].op \in Range(TeardownCommands)

\* C36: once Benchmarker::teardown has ended, the teardown of the
\* environment of every worker of the pool has been attempted, whatever
\* step of the teardown of another worker has failed.
C36_TeardownIsBestEffort ==
    TeardownEnded =>
        \A x \in DOMAIN workers :
            \E i \in 1..Len(container_ops) :
                /\ container_ops[i].op = TeardownCommands[1]
                /\ container_ops[i].container = workers[x].docker_manager.container_name

\* ---------------------------------------------------------------------
\* The calls of compare_results and the revisions swept

\* C37: the two logs of every call of compare_results by run_benchmark
\* are logs of the same test set and of two different revisions, and no
\* two calls are made for the same test set or on the same pair of logs.
C37_CompareOncePerTestSet ==
    /\ \A i \in 1..Len(compare_calls) :
          /\ compare_calls[i][1][2] = compare_calls[i][2][2]
          /\ compare_calls[i][1][3] # compare_calls[i][2][3]
    /\ \A i, j \in 1..Len(compare_calls) :
          (\/ compare_calls[i] = compare_calls[j]
           \/ compare_calls[i][2][2] = compare_calls[j][2][2]) => i = j

\* C38: in a run configured with no comparison (compare_to_local false,
\* compare_to_commit none) compare_results is never called and the run
\* never aborts on the number of comparison logs, whatever the number of
\* test sets.
C38_NoComparisonNoCompare ==
    (~config.compare_to_local /\ config.compare_to_commit = None) =>
        /\ compare_calls = <<>>
        /\ panic \notin {"More than 2 comparison CSVs found",
                          "No comparison CSVs found"}

\* The revisions a test set is to be swept for, in order: the base
\* revision, compare_to_commit when set, "local" when compare_to_local.
RevisionsInOrder ==
    << IF config.libjxl_commit # None THEN config.libjxl_commit
       ELSE DEFAULT_LIBJXL_COMMIT >>
    \o (IF config.compare_to_commit # None THEN <<config.compare_to_commit>> ELSE <<>>)
    \o (IF config.compare_to_local THEN <<"local">> ELSE <<>>)

\* The revisions of the comparison logs recorded for a test set, in order.
LogsOf(ts) ==
    LET logs == SelectSeq(comparison_csvs, LAMBDA l : l[2] = ts)
    IN  [i \in 1..Len(logs) |-> logs[i][3]]

\* The revisions of the dispatches of a test set, in order.
DispatchedRevisions(ts) ==
    LET ds == SelectSeq(dispatched, LAMBDA d : d.test_set = ts)
    IN  [i \in 1..Len(ds) |-> ds[i].commit]

\* The while loop of a test set is over.
SweptThrough(ts) ==
    \/ test_set > ts
    \/ test_set = ts /\ pc \in {"wait_for_all_workers", "compare"}

\* Position of a revision in the order of the sweeps.
PositionOf(rev) ==
    CHOOSE i \in 1..Len(RevisionsInOrder) : RevisionsInOrder[i] = rev

\* C39: once the sweeps of a test set are over, the comparison logs
\* recorded for it are those of the base revision, of compare_to_commit
\* when set and of "local" when set, in that order and once each (two
\* logs when exactly one comparison is asked for), and the tasks of the
\* test set were dispatched revision after revision in that order.
C39_RevisionsSweptInOrder ==
    \A ts \in DOMAIN image_dir :
        /\ SweptThrough(ts) => LogsOf(ts) = RevisionsInOrder
        /\ LET revs == DispatchedRevisions(ts)
           IN  \A i, j \in 1..Len(revs) :
                   /\ revs[i] \in Range(RevisionsInOrder)
                   /\ i < j => PositionOf(revs[i]) <= PositionOf(revs[j])

\* ---------------------------------------------------------------------
\* A run compared to "local" in which the copy of local.diff into the
\* container or its application may fail

DiffCopyFailsExits ==
    [t \in Tools |-> IF t \in {"cp_local_diff", "git_apply", "butteraugli_main"}
                     THEN 1 ELSE 0]

DiffApplyFailsExits ==
    [t \in Tools |-> IF t \in {"git_apply", "butteraugli_main"} THEN 1 ELSE 0]

InitLocalDiff ==
    \E w \in 1..MaxWorkers, cl \in BOOLEAN :
      \E listing \in Listings :
        /\ image_dir = <<listing>>
        /\ benchmark_dir = NewRoot
        /\ grid = SubSeq(Grid, 1, 1)
        /\ tool_exits = {SweptExits, DiffCopyFailsExits, DiffApplyFailsExits}
        /\ Constructed(Context(w, 1, None, cl, None, NewRoot))
        /\ AtRest

SpecLocalDiff == InitLocalDiff /\ [][Next]_vars

\* The applications of the local diff so far have all failed.
NoDiffApplied ==
    \A i \in 1..Len(container_ops) :
        container_ops[i].op = "apply_local_as_diff" => container_ops[i].status # 0

====
